---- MODULE Spec2Model ----
(***************************************************************************)
(* Ledger and transfer engine of the banking API.                          *)
(*                                                                         *)
(* The store is the SQLite database behind the shared Prisma client: the   *)
(* committed tables are `accounts` and `transfers`.  An interactive        *)
(* transaction (prisma.$transaction) takes the database's single write     *)
(* lock when it begins, works on a private copy of the tables, and either  *)
(* commits the copy or, when its callback throws or a store call fails,    *)
(* discards it.  Reads made outside a transaction see the committed        *)
(* tables.  Every `await` of the service code is one step of the model.    *)
(*                                                                         *)
(* The repository holds two versions of accountTransfer: the one that runs *)
(* every check inside the transaction and the earlier one that checks      *)
(* first and opens the transaction only for the three writes.  `variant`   *)
(* says which of them is deployed in a behaviour.                          *)
(*                                                                         *)
(* Amounts and balances are whole units (the REAL columns of the schema    *)
(* hold them exactly).                                                     *)
(*                                                                         *)
(* Spec is the ledger from an empty database: createAccount and concurrent *)
(* transfers, within one value of the clock.  HistorySpec starts from      *)
(* three open accounts and adds the clock that stamps Transfer rows and    *)
(* getTransferHistory, with one transfer after another.  AccountSpec is    *)
(* createAccount alone, over the numbers JavaScript can pass it.  ReadSpec *)
(* adds getBalance, getTransferHistory and login beside transfers between  *)
(* two open accounts.  ConcurrentSpec is two concurrent transfers over     *)
(* four open accounts, TransferSpec concurrent transfers of each kind over *)
(* three, and OpenSpec the opening of accounts followed by transfers.      *)
(* ApiSpec puts the routes of the HTTP layer in front of the core, for     *)
(* one client.  SeedSpec runs the seed, in either of its two versions,     *)
(* some times in a row.  EnvSpec starts the server from an environment and *)
(* logs in.                                                                *)
(***************************************************************************)
EXTENDS Integers, Sequences, FiniteSets, TLC

\* ------------------------------------------------------------------ bounds
NCalls == 2          \* accountTransfer calls of a behaviour
NCreators == 1       \* clients calling createAccount, one call at a time each
MaxAccounts == 2     \* accounts a behaviour creates at most
MaxAmount == 2       \* largest transfer amount tried
MaxDeposit == 2      \* largest opening deposit tried
NReaders == 1        \* clients calling a read operation, one call at a time each
NClients == 1        \* HTTP clients, one request at a time each
MaxTime == 2         \* clock values a behaviour passes through after the first
MaxTransfers == 3    \* transfer calls let through where call slots are reused
MaxSeedRuns == 3     \* runs of the seed process in a row
HistoryAccounts == 3 \* accounts open where the history is read
PairAccounts == 4    \* accounts open where transfers on disjoint pairs run

\* ------------------------------------------------------------ program data
NumCustomers == 4    \* customers the seed provisions

Calls == 1..NCalls
Creators == 1..NCreators
Readers == 1..NReaders
Clients == 1..NClients
AccountIdInputs == 1..(MaxAccounts + 1)   \* MaxAccounts + 1 never exists
Amounts == (-1)..MaxAmount
Deposits == (-1)..MaxDeposit
CustomerIdInputs == {1, NumCustomers + 1} \* a seeded one and a missing one
HistoryIdInputs == {1, HistoryAccounts + 1} \* an open one and a missing one
HistoryPairs == {<<1, 2>>, <<2, 1>>, <<2, 3>>} \* sent by 1, received by 1, neither

\* The Customer table as the seed leaves it: row i has id i.
CustomerNames == <<"Arisha Barron", "Branden Gibson", "Rhonda Church", "Georgina Hazel">>

ErrAmount == "Transfer amount must be positive and more than Zero"
ErrSame == "Cannot transfer to the same account"
ErrSource == "Source account does not exist"
ErrDest == "Destination account does not exist"
ErrFunds == "Insufficient funds"
ErrCustomer == "Customer not found"
ErrDeposit == "Initial Deposit must be greater Zero"
ErrAccount == "Account not found"
ErrCredentials == "Invalid credentials"
ErrUnique == "Unique constraint failed on the fields: (username)"
ErrStore == "store call failed"
Ok == "ok"

VARIABLES
    variant,      \* "transactional" | "checkFirst": the accountTransfer deployed
    accounts,     \* committed Account table: row i has id i
    transfers,    \* committed Transfer table: row i has id i
    txOwner,      \* the call holding the open transaction, 0 when none
    txAccounts,   \* the open transaction's copy of the Account table
    txTransfers,  \* the open transaction's copy of the Transfer table
    calls,        \* accountTransfer calls
    creates,      \* createAccount calls, one per client at a time
    now,          \* the clock the store stamps new Transfer rows with
    reads,        \* getTransferHistory calls, one per client at a time
    balances,     \* getBalance calls, one per client at a time
    logins,       \* login calls, one per client at a time
    requests,     \* HTTP requests, one per client at a time
    customers,    \* Customer table: row i has id i
    employees,    \* Employee table: row i has id i
    seeds,        \* the seed process
    process       \* the server process: its environment and whether it has started

vars == <<variant, accounts, transfers, txOwner, txAccounts, txTransfers, calls, creates,
         now, reads, balances, logins, requests, customers, employees, seeds, process>>

\* ----------------------------------------------------------------- store
\* prisma.account.findUnique({where: {id}}): <<row>> or <<>> for null.
FindUnique(table, id) ==
    IF id \in 1..Len(table) THEN <<table[id]>> ELSE <<>>

\* Decrement as it would be were the balance set to the amount.
DecrementSetsBalance(table, id, amount) ==
    [table EXCEPT ![id].balance = amount]

\* {balance: {decrement: amount}} on the row with that id.
Decrement(table, id, amount) ==
    [table EXCEPT ![id].balance = @ - amount]

\* Increment as it would be with the decrement pasted in its place.
IncrementPastedDecrement(table, id, amount) ==
    [table EXCEPT ![id].balance = @ - amount]

\* {balance: {increment: amount}} on the row with that id.
Increment(table, id, amount) ==
    [table EXCEPT ![id].balance = @ + amount]

\* InsertTransfer as it would be with the two account ids swapped in data.
InsertTransferSwapped(table, from, to, amount, clock) ==
    Append(table, [id |-> Len(table) + 1, fromAccountId |-> to,
                   toAccountId |-> from, amount |-> amount, timestamp |-> clock])

\* transfer.create({data: {fromAccountId, toAccountId, amount}}): the id is
\* the next of the sequence, the timestamp column defaults to the clock.
InsertTransfer(table, from, to, amount, clock) ==
    Append(table, [id |-> Len(table) + 1, fromAccountId |-> from,
                   toAccountId |-> to, amount |-> amount, timestamp |-> clock])

\* InsertAccount as it would be with balance left out of data: the column
\* takes its default.
InsertAccountDefaultBalance(table, customerId, balance) ==
    Append(table, [id |-> Len(table) + 1, customerId |-> customerId,
                   balance |-> 0, deposit |-> 0])

\* account.create({data: {customerId, balance}}).
InsertAccount(table, customerId, balance) ==
    Append(table, [id |-> Len(table) + 1, customerId |-> customerId,
                   balance |-> balance, deposit |-> balance])

\* ---------------------------------------------------------------- checks
\* NotPositive as it would be with < in place of <=.
NotPositiveStrict(amount) ==
    amount < 0

\* if (amount <= 0)
NotPositive(amount) ==
    amount <= 0

\* Insufficient as it would be with <= in place of <.
InsufficientOrEqual(fromAccount, amount) ==
    fromAccount.balance <= amount

\* if (fromAccount.balance < amount)
Insufficient(fromAccount, amount) ==
    fromAccount.balance < amount

\* JavaScript numbers that are not finite, written as integers beyond every
\* finite number met: Infinity compares as the largest, NaN compares false.
Infinity == 1000000
NaN == -1000000

IsFinite(n) ==
    n \notin {Infinity, NaN}

\* DepositNotPositive as it would be with < in place of <=.
DepositNegative(initialDeposit) ==
    initialDeposit # NaN /\ initialDeposit < 0

\* if (initialDeposit <= 0)
DepositNotPositive(initialDeposit) ==
    initialDeposit # NaN /\ initialDeposit <= 0

\* The route's answer to what accountTransfer returned or threw.
HttpStatus(result) ==
    IF result = Ok THEN 201
    ELSE IF result = ErrSource \/ result = ErrDest THEN 404
    ELSE 400

\* ----------------------------------------------------------------- calls
IdleCall ==
    [pc |-> "idle", from |-> 0, to |-> 0, amount |-> 0, fromAccount |-> <<>>,
     updatedFromAccount |-> <<>>, updatedToAccount |-> <<>>, transfer |-> <<>>,
     result |-> "", returned |-> <<>>,
     storeOps |-> 0, startAccounts |-> 0, startTransfers |-> 0]

IdleCreate ==
    [pc |-> "idle", customerId |-> 0, initialDeposit |-> 0, result |-> "",
     returned |-> <<>>]

IdleRead ==
    [pc |-> "idle", accountId |-> 0, result |-> "", history |-> <<>>]

IdleBalance ==
    [pc |-> "idle", accountId |-> 0, result |-> "", returned |-> <<>>]

IdleLogin ==
    [pc |-> "idle", username |-> "", password |-> "", employee |-> <<>>,
     result |-> "", returned |-> <<>>]

\* A field the request body lacks reads as undefined.
Undefined == -2000000

\* The fields a request can carry: those of a JSON body, and the path's :id as
\* the characters of the string.
NoArgs ==
    [fromAccountId |-> Undefined, toAccountId |-> Undefined, amount |-> Undefined,
     customerId |-> Undefined, initialDeposit |-> Undefined, id |-> <<>>]

\* A response body not yet written: <<>> stands for a key the JSON lacks.
NoBody ==
    [errorMessage |-> <<>>, error |-> <<>>, results |-> <<>>]

NoAuthorization ==
    [scheme |-> "", token |-> [signed |-> FALSE, employeeId |-> 0, username |-> "",
                               role |-> ""]]

IdleRequest ==
    [pc |-> "idle", route |-> "", authorization |-> NoAuthorization, args |-> NoArgs,
     status |-> 0, body |-> NoBody]

\* The call returns or throws outside a transaction; its locals are gone.
Finish(c, result, ops) ==
    calls' = [calls EXCEPT ![c] = [IdleCall EXCEPT !.pc = "done", !.result = result,
                                       !.from = calls[c].from, !.to = calls[c].to,
                                       !.amount = calls[c].amount,
                                       !.storeOps = calls[c].storeOps + ops]]

\* Rollback as it would be were the writes made on the shared client and not on
\* the transaction's: what was written stays.
RollbackKeepsWrites(c, result) ==
    /\ Finish(c, result, 1)
    /\ txOwner' = 0
    /\ txAccounts' = <<>>
    /\ txTransfers' = <<>>
    /\ accounts' = txAccounts
    /\ transfers' = txTransfers

\* The callback of $transaction throws: the transaction is rolled back and the
\* error reaches the caller.
Rollback(c, result) ==
    /\ Finish(c, result, 1)
    /\ txOwner' = 0
    /\ txAccounts' = <<>>
    /\ txTransfers' = <<>>
    /\ UNCHANGED <<accounts, transfers>>

\* Call slots are taken in order: the calls are alike, so which slot a client
\* gets is immaterial.
CanInvoke(c) ==
    /\ calls[c].pc = "idle"
    /\ IF c = 1 THEN TRUE ELSE calls[c - 1].pc # "idle"

\* No accountTransfer call is wanted or under way: a client that awaits each
\* transfer makes its next one then.
NoTransfer ==
    \A d \in Calls : calls[d].pc = "idle"

\* No accountTransfer call is under way.
NoCall ==
    \A d \in Calls : calls[d].pc \in {"idle", "done"}

\* Accounts are opened by one client, k.
OnlyCreator(k) ==
    \A other \in Creators \ {k} : creates[other].pc = "idle"

\* The history is read by one client, r.
OnlyReader(r) ==
    \A other \in Readers \ {r} : reads[other].pc = "idle"

\* Requests are sent by one client, q.
OnlyClient(q) ==
    \A other \in Clients \ {q} : requests[other].pc = "idle"

\* ------------------------------------------------------------- seeded data
\* bcrypt.hash: a value from which the password cannot be read back.
Hash(password) ==
    <<"bcrypt", password>>

\* The Employee table as the seed leaves it.
Employees ==
    <<[id |-> 1, username |-> "employee1", password |-> Hash("password123"),
       role |-> "teller"],
      [id |-> 2, username |-> "manager1", password |-> Hash("password123"),
       role |-> "manager"]>>

\* The Customer table as the seed leaves it.
SeededCustomers ==
    [i \in 1..NumCustomers |-> [id |-> i, name |-> CustomerNames[i]]]

\* ------------------------------------------------------------- environment
\* The values of the optionalVars of validateEnvVars: process.env holds
\* strings, and "" stands for a variable that is unset or empty.
DefaultExpireIn == "24h"
DefaultPort == "3000"

\* !value || value.trim() === ''
Blank(value) ==
    value \in {"", " "}

\* The environment of a server that has started with the required variables
\* set and the optional ones left to their defaults.
RunningProcess ==
    [pc |-> "running", result |-> "",
     env |-> [DATABASE_URL |-> "file:./dev.db", JWT_SECRET |-> "secret",
              JWT_EXPIRE_IN |-> DefaultExpireIn, JWT_EXPIRE |-> "",
              PORT |-> DefaultPort]]

\* The seed process before its first run.
IdleSeed ==
    [pc |-> "idle", version |-> "", i |-> 0, runs |-> 0, result |-> ""]

\* One more store call of the open transaction returned.
TxStep(c, pc) ==
    calls' = [calls EXCEPT ![c].pc = pc, ![c].storeOps = @ + 1]

Init ==
    /\ variant \in {"transactional", "checkFirst"}
    /\ accounts = <<>>
    /\ transfers = <<>>
    /\ txOwner = 0
    /\ txAccounts = <<>>
    /\ txTransfers = <<>>
    /\ calls = [c \in Calls |-> IdleCall]
    /\ creates = [k \in Creators |-> IdleCreate]
    /\ now = 0
    /\ reads = [r \in Readers |-> IdleRead]
    /\ balances = [g \in Readers |-> IdleBalance]
    /\ logins = [l \in Readers |-> IdleLogin]
    /\ requests = [q \in Clients |-> IdleRequest]
    /\ customers = SeededCustomers
    /\ employees = Employees
    /\ seeds = IdleSeed
    /\ process = RunningProcess

\* ---------------------------------------------- accountTransfer, in-tx checks
\* Invoke as it would be without the same-account check.
InvokeSameAccountAllowed(c, from, to, amount) ==
    /\ variant = "transactional"
    /\ CanInvoke(c)
    /\ LET args == [IdleCall EXCEPT !.from = from, !.to = to, !.amount = amount]
           started == [args EXCEPT !.startAccounts = Len(accounts),
                                   !.startTransfers = Len(transfers)]
       IN  calls' = [calls EXCEPT ![c] =
                IF NotPositive(amount)
                THEN [args EXCEPT !.pc = "done", !.result = ErrAmount]
                ELSE [started EXCEPT !.pc = "begin"]]
    /\ UNCHANGED <<variant, process, customers, employees, seeds, accounts, transfers, txOwner, txAccounts, txTransfers, creates, now, reads,
                   balances, logins, requests>>

\* The call is made; the two argument checks run before the first await.
Invoke(c, from, to, amount) ==
    /\ variant = "transactional"
    /\ CanInvoke(c)
    /\ LET args == [IdleCall EXCEPT !.from = from, !.to = to, !.amount = amount]
           started == [args EXCEPT !.startAccounts = Len(accounts),
                                   !.startTransfers = Len(transfers)]
       IN  calls' = [calls EXCEPT ![c] =
                IF NotPositive(amount)
                THEN [args EXCEPT !.pc = "done", !.result = ErrAmount]
                ELSE IF from = to
                THEN [args EXCEPT !.pc = "done", !.result = ErrSame]
                ELSE [started EXCEPT !.pc = "begin"]]
    /\ UNCHANGED <<variant, process, customers, employees, seeds, accounts, transfers, txOwner, txAccounts, txTransfers, creates, now, reads,
                   balances, logins, requests>>

\* prisma.$transaction(async (tx) => ...): the transaction starts once the
\* write lock is free.
Begin(c) ==
    /\ variant = "transactional"
    /\ calls[c].pc = "begin"
    /\ txOwner = 0
    /\ txOwner' = c
    /\ txAccounts' = accounts
    /\ txTransfers' = transfers
    /\ TxStep(c, "findFrom")
    /\ UNCHANGED <<variant, process, customers, employees, seeds, accounts, transfers, creates, now, reads, balances, logins, requests>>

\* tx.account.findUnique for the source, and its null check.
FindFrom(c) ==
    /\ variant = "transactional"
    /\ calls[c].pc = "findFrom"
    /\ txOwner = c
    /\ LET fromAccount == FindUnique(txAccounts, calls[c].from)
       IN  IF fromAccount = <<>>
           THEN Rollback(c, ErrSource)
           ELSE /\ calls' = [calls EXCEPT ![c].pc = "findTo",
                                          ![c].fromAccount = fromAccount,
                                          ![c].storeOps = @ + 1]
                /\ UNCHANGED <<accounts, transfers, txOwner, txAccounts, txTransfers>>
    /\ UNCHANGED <<variant, process, customers, employees, seeds, creates, now, reads, balances, logins, requests>>

\* FindTo as it would be with the source's message pasted into the
\* destination's null check.
FindToPastedMessage(c) ==
    /\ variant = "transactional"
    /\ calls[c].pc = "findTo"
    /\ txOwner = c
    /\ LET toAccount == FindUnique(txAccounts, calls[c].to)
       IN  IF toAccount = <<>>
           THEN Rollback(c, ErrSource)
           ELSE IF Insufficient(calls[c].fromAccount[1], calls[c].amount)
           THEN Rollback(c, ErrFunds)
           ELSE /\ TxStep(c, "updateFrom")
                /\ UNCHANGED <<accounts, transfers, txOwner, txAccounts, txTransfers>>
    /\ UNCHANGED <<variant, process, customers, employees, seeds, creates, now, reads, balances, logins, requests>>

\* tx.account.findUnique for the destination, its null check and the balance check.
FindTo(c) ==
    /\ variant = "transactional"
    /\ calls[c].pc = "findTo"
    /\ txOwner = c
    /\ LET toAccount == FindUnique(txAccounts, calls[c].to)
       IN  IF toAccount = <<>>
           THEN Rollback(c, ErrDest)
           ELSE IF Insufficient(calls[c].fromAccount[1], calls[c].amount)
           THEN Rollback(c, ErrFunds)
           ELSE /\ TxStep(c, "updateFrom")
                /\ UNCHANGED <<accounts, transfers, txOwner, txAccounts, txTransfers>>
    /\ UNCHANGED <<variant, process, customers, employees, seeds, creates, now, reads, balances, logins, requests>>

\* UpdateFrom as it would be with prisma.account.update in place of
\* tx.account.update: the decrement is committed at once.
UpdateFromOutsideTx(c) ==
    /\ calls[c].pc = "updateFrom"
    /\ txOwner = c
    /\ accounts' = Decrement(accounts, calls[c].from, calls[c].amount)
    /\ txAccounts' = Decrement(txAccounts, calls[c].from, calls[c].amount)
    /\ calls' = [calls EXCEPT ![c].pc = "updateTo", ![c].storeOps = @ + 1,
                              ![c].updatedFromAccount = <<txAccounts'[calls[c].from]>>]
    /\ UNCHANGED <<variant, process, customers, employees, seeds, transfers, txOwner, txTransfers, creates, now, reads,
                   balances, logins, requests>>

\* tx.account.update: decrement the source; the updated row is kept.
UpdateFrom(c) ==
    /\ calls[c].pc = "updateFrom"
    /\ txOwner = c
    /\ txAccounts' = Decrement(txAccounts, calls[c].from, calls[c].amount)
    /\ calls' = [calls EXCEPT ![c].pc = "updateTo", ![c].storeOps = @ + 1,
                              ![c].updatedFromAccount = <<txAccounts'[calls[c].from]>>]
    /\ UNCHANGED <<variant, process, customers, employees, seeds, accounts, transfers, txOwner, txTransfers, creates, now, reads,
                   balances, logins, requests>>

\* UpdateTo as it would be were every account of the destination's customer
\* credited (updateMany on customerId in place of update on id).
UpdateToOfCustomer(c) ==
    /\ calls[c].pc = "updateTo"
    /\ txOwner = c
    /\ txAccounts' = [i \in 1..Len(txAccounts) |->
                         IF txAccounts[i].customerId = txAccounts[calls[c].to].customerId
                         THEN [txAccounts[i] EXCEPT !.balance = @ + calls[c].amount]
                         ELSE txAccounts[i]]
    /\ calls' = [calls EXCEPT ![c].pc = "createTransfer", ![c].storeOps = @ + 1,
                              ![c].updatedToAccount = <<txAccounts'[calls[c].to]>>]
    /\ UNCHANGED <<variant, process, customers, employees, seeds, accounts, transfers, txOwner, txTransfers, creates, now, reads,
                   balances, logins, requests>>

\* tx.account.update: increment the destination; the updated row is kept.
UpdateTo(c) ==
    /\ calls[c].pc = "updateTo"
    /\ txOwner = c
    /\ txAccounts' = Increment(txAccounts, calls[c].to, calls[c].amount)
    /\ calls' = [calls EXCEPT ![c].pc = "createTransfer", ![c].storeOps = @ + 1,
                              ![c].updatedToAccount = <<txAccounts'[calls[c].to]>>]
    /\ UNCHANGED <<variant, process, customers, employees, seeds, accounts, transfers, txOwner, txTransfers, creates, now, reads,
                   balances, logins, requests>>

\* CreateTransfer as it would be with an update of the latest row in place of
\* create.
CreateTransferUpdatesLast(c) ==
    /\ calls[c].pc = "createTransfer"
    /\ txOwner = c
    /\ txTransfers' =
          IF txTransfers = <<>>
          THEN InsertTransfer(txTransfers, calls[c].from, calls[c].to, calls[c].amount, now)
          ELSE [txTransfers EXCEPT ![Len(txTransfers)] =
                  [@ EXCEPT !.fromAccountId = calls[c].from, !.toAccountId = calls[c].to,
                            !.amount = calls[c].amount, !.timestamp = now]]
    /\ calls' = [calls EXCEPT ![c].pc = "commit", ![c].storeOps = @ + 1,
                              ![c].transfer = <<txTransfers'[Len(txTransfers')]>>]
    /\ UNCHANGED <<variant, process, customers, employees, seeds, accounts, transfers, txOwner, txAccounts, creates, now, reads,
                   balances, logins, requests>>

\* tx.transfer.create; the created row is kept.
CreateTransfer(c) ==
    /\ calls[c].pc = "createTransfer"
    /\ txOwner = c
    /\ txTransfers' = InsertTransfer(txTransfers, calls[c].from, calls[c].to, calls[c].amount, now)
    /\ calls' = [calls EXCEPT ![c].pc = "commit", ![c].storeOps = @ + 1,
                              ![c].transfer = <<txTransfers'[Len(txTransfers')]>>]
    /\ UNCHANGED <<variant, process, customers, employees, seeds, accounts, transfers, txOwner, txAccounts, creates, now, reads,
                   balances, logins, requests>>

\* What a successful call returns.
Returned(transfer, fromAccount, toAccount) ==
    <<[transfer |-> transfer[1], fromAccount |-> fromAccount[1], toAccount |-> toAccount[1]]>>

\* The call returns successfully; its other locals are gone.
FinishOk(c, returned) ==
    calls' = [calls EXCEPT ![c] = [IdleCall EXCEPT !.pc = "done", !.result = Ok,
                                       !.returned = returned,
                                       !.from = calls[c].from, !.to = calls[c].to,
                                       !.amount = calls[c].amount,
                                       !.storeOps = calls[c].storeOps + 1]]

\* Commit as it would be were the rows read by findUnique returned in place of
\* the rows the updates returned.
CommitReturnsRowsRead(c) ==
    /\ calls[c].pc = "commit"
    /\ txOwner = c
    /\ accounts' = txAccounts
    /\ transfers' = txTransfers
    /\ txOwner' = 0
    /\ txAccounts' = <<>>
    /\ txTransfers' = <<>>
    /\ FinishOk(c, Returned(calls[c].transfer, calls[c].fromAccount,
                            <<accounts[calls[c].to]>>))
    /\ UNCHANGED <<variant, process, customers, employees, seeds, creates, now, reads, balances, logins, requests>>

\* The callback returns {transfer, fromAccount: updatedFromAccount, toAccount:
\* updatedToAccount}: the transaction commits and the call returns that.
Commit(c) ==
    /\ calls[c].pc = "commit"
    /\ txOwner = c
    /\ accounts' = txAccounts
    /\ transfers' = txTransfers
    /\ txOwner' = 0
    /\ txAccounts' = <<>>
    /\ txTransfers' = <<>>
    /\ FinishOk(c, Returned(calls[c].transfer, calls[c].updatedFromAccount,
                            calls[c].updatedToAccount))
    /\ UNCHANGED <<variant, process, customers, employees, seeds, creates, now, reads, balances, logins, requests>>

\* --------------------------------------------- accountTransfer, checks first
\* The call is made; only the amount check runs before the first await.
InvokeCheckFirst(c, from, to, amount) ==
    /\ variant = "checkFirst"
    /\ CanInvoke(c)
    /\ LET args == [IdleCall EXCEPT !.from = from, !.to = to, !.amount = amount]
           started == [args EXCEPT !.startAccounts = Len(accounts),
                                   !.startTransfers = Len(transfers)]
       IN  calls' = [calls EXCEPT ![c] =
                IF NotPositive(amount)
                THEN [args EXCEPT !.pc = "done", !.result = ErrAmount]
                ELSE [started EXCEPT !.pc = "findFrom"]]
    /\ UNCHANGED <<variant, process, customers, employees, seeds, accounts, transfers, txOwner, txAccounts, txTransfers, creates, now, reads,
                   balances, logins, requests>>

\* prisma.account.findUnique for the source, outside any transaction.
FindFromCheckFirst(c) ==
    /\ variant = "checkFirst"
    /\ calls[c].pc = "findFrom"
    /\ LET fromAccount == FindUnique(accounts, calls[c].from)
       IN  IF fromAccount = <<>>
           THEN Finish(c, ErrSource, 1)
           ELSE calls' = [calls EXCEPT ![c].pc = "findTo",
                                       ![c].fromAccount = fromAccount,
                                       ![c].storeOps = @ + 1]
    /\ UNCHANGED <<variant, process, customers, employees, seeds, accounts, transfers, txOwner, txAccounts, txTransfers, creates, now, reads,
                   balances, logins, requests>>

\* prisma.account.findUnique for the destination, then the balance check on the
\* source row read earlier, then the same-account check.
FindToCheckFirst(c) ==
    /\ variant = "checkFirst"
    /\ calls[c].pc = "findTo"
    /\ LET toAccount == FindUnique(accounts, calls[c].to)
       IN  IF toAccount = <<>>
           THEN Finish(c, ErrDest, 1)
           ELSE IF Insufficient(calls[c].fromAccount[1], calls[c].amount)
           THEN Finish(c, ErrFunds, 1)
           ELSE IF calls[c].from = calls[c].to
           THEN Finish(c, ErrSame, 1)
           ELSE TxStep(c, "begin")
    /\ UNCHANGED <<variant, process, customers, employees, seeds, accounts, transfers, txOwner, txAccounts, txTransfers, creates, now, reads,
                   balances, logins, requests>>

\* prisma.$transaction(async (tx) => ...) around the three writes.
BeginCheckFirst(c) ==
    /\ variant = "checkFirst"
    /\ calls[c].pc = "begin"
    /\ txOwner = 0
    /\ txOwner' = c
    /\ txAccounts' = accounts
    /\ txTransfers' = transfers
    /\ TxStep(c, "updateFrom")
    /\ UNCHANGED <<variant, process, customers, employees, seeds, accounts, transfers, creates, now, reads, balances, logins, requests>>

\* ----------------------------------------------------------- store failure
\* The store call a transfer is waiting for fails or times out: an open
\* transaction is rolled back, and the error reaches the caller.
StoreFail(c) ==
    /\ calls[c].pc \notin {"idle", "done"}
    /\ IF txOwner = c
       THEN Rollback(c, ErrStore)
       ELSE /\ Finish(c, ErrStore, 1)
            /\ UNCHANGED <<accounts, transfers, txOwner, txAccounts, txTransfers>>
    /\ UNCHANGED <<variant, process, customers, employees, seeds, creates, now, reads, balances, logins, requests>>

\* ------------------------------------------------------------ createAccount
\* FindCustomer as it would be without the customer check.
FindCustomerUnchecked(k, customerId, initialDeposit) ==
    /\ creates[k].pc \in {"idle", "done"}
    /\ Len(accounts) < MaxAccounts
    /\ LET args == [IdleCreate EXCEPT !.customerId = customerId,
                                      !.initialDeposit = initialDeposit]
       IN  creates' = [creates EXCEPT ![k] =
               IF DepositNotPositive(initialDeposit)
               THEN [args EXCEPT !.pc = "done", !.result = ErrDeposit]
               ELSE [args EXCEPT !.pc = "insert"]]
    /\ UNCHANGED <<variant, process, customers, employees, seeds, accounts, transfers, txOwner, txAccounts, txTransfers, calls, now, reads,
                   balances, logins, requests>>

\* The call is made and prisma.customer.findUnique returns (the Customer table is
\* never written, so when the lookup runs makes no difference); the customer
\* check, then the deposit check.
FindCustomer(k, customerId, initialDeposit) ==
    /\ creates[k].pc \in {"idle", "done"}
    /\ Len(accounts) < MaxAccounts
    /\ LET args == [IdleCreate EXCEPT !.customerId = customerId,
                                      !.initialDeposit = initialDeposit]
       IN  creates' = [creates EXCEPT ![k] =
               IF FindUnique(customers, customerId) = <<>>
               THEN [args EXCEPT !.pc = "done", !.result = ErrCustomer]
               ELSE IF DepositNotPositive(initialDeposit)
               THEN [args EXCEPT !.pc = "done", !.result = ErrDeposit]
               ELSE [args EXCEPT !.pc = "insert"]]
    /\ UNCHANGED <<variant, process, customers, employees, seeds, accounts, transfers, txOwner, txAccounts, txTransfers, calls, now, reads,
                   balances, logins, requests>>

\* InsertNewAccount as it would be were the account created without its
\* customer.
InsertNewAccountNoCustomer(k) ==
    /\ creates[k].pc = "insert"
    /\ txOwner = 0
    /\ Len(accounts) < MaxAccounts
    /\ accounts' = InsertAccount(accounts, 0, creates[k].initialDeposit)
    /\ creates' = [creates EXCEPT ![k] =
            [creates[k] EXCEPT !.pc = "done", !.result = Ok,
                                !.returned = <<accounts'[Len(accounts')]>>]]
    /\ UNCHANGED <<variant, process, customers, employees, seeds, transfers, txOwner, txAccounts, txTransfers, calls, now, reads,
                   balances, logins, requests>>

\* prisma.account.create: a write of its own, made when the write lock is free;
\* the call returns the row created.
InsertNewAccount(k) ==
    /\ creates[k].pc = "insert"
    /\ txOwner = 0
    /\ Len(accounts) < MaxAccounts
    /\ accounts' = InsertAccount(accounts, creates[k].customerId, creates[k].initialDeposit)
    /\ creates' = [creates EXCEPT ![k] =
            [creates[k] EXCEPT !.pc = "done", !.result = Ok,
                                !.returned = <<accounts'[Len(accounts')]>>]]
    /\ UNCHANGED <<variant, process, customers, employees, seeds, transfers, txOwner, txAccounts, txTransfers, calls, now, reads,
                   balances, logins, requests>>

\* -------------------------------------------------------- getTransferHistory
\* Involves as it would be with the filter on the source alone.
InvolvesAsSource(row, accountId) ==
    row.fromAccountId = accountId

\* where: {OR: [{fromAccountId: accountId}, {toAccountId: accountId}]}
Involves(row, accountId) ==
    row.fromAccountId = accountId \/ row.toAccountId = accountId

\* The rows of the table that pass the filter, in the order of the table.
Where(table, accountId) ==
    SelectSeq(table, LAMBDA row : Involves(row, accountId))

\* One more row put into rows kept newest first.  The store says nothing of
\* the order of rows of one timestamp: the row goes after them, or before
\* them when tiesReversed.
RECURSIVE InsertByTimestampDesc(_, _, _)
InsertByTimestampDesc(sorted, row, tiesReversed) ==
    IF sorted = <<>> THEN <<row>>
    ELSE IF \/ sorted[1].timestamp < row.timestamp
            \/ (tiesReversed /\ sorted[1].timestamp = row.timestamp)
         THEN <<row>> \o sorted
         ELSE <<sorted[1]>> \o InsertByTimestampDesc(Tail(sorted), row, tiesReversed)

\* OrderByTimestampDesc as it would be with orderBy left out: the rows come
\* in the order of the table.
OrderOfTable(rows, tiesReversed) ==
    rows

\* orderBy: {timestamp: 'desc'}
RECURSIVE OrderByTimestampDesc(_, _)
OrderByTimestampDesc(rows, tiesReversed) ==
    IF rows = <<>> THEN <<>>
    ELSE InsertByTimestampDesc(
             OrderByTimestampDesc(SubSeq(rows, 1, Len(rows) - 1), tiesReversed),
             rows[Len(rows)], tiesReversed)

\* select: {id: true, customer: {select: {name: true}}} on an Account row.
SelectAccount(table, id) ==
    [id |-> table[id].id, customer |-> [name |-> CustomerNames[table[id].customerId]]]

\* Include as it would be with the source's relation pasted for the
\* destination.
IncludePastedSource(row, table) ==
    [id |-> row.id, fromAccountId |-> row.fromAccountId, toAccountId |-> row.toAccountId,
     amount |-> row.amount, timestamp |-> row.timestamp,
     fromAccount |-> SelectAccount(table, row.fromAccountId),
     toAccount |-> SelectAccount(table, row.fromAccountId)]

\* include: {fromAccount: ..., toAccount: ...} on a Transfer row.
Include(row, table) ==
    [id |-> row.id, fromAccountId |-> row.fromAccountId, toAccountId |-> row.toAccountId,
     amount |-> row.amount, timestamp |-> row.timestamp,
     fromAccount |-> SelectAccount(table, row.fromAccountId),
     toAccount |-> SelectAccount(table, row.toAccountId)]

\* prisma.transfer.findMany({where, orderBy, include}).
FindManyTransfers(accountId, tiesReversed) ==
    LET rows == OrderByTimestampDesc(Where(transfers, accountId), tiesReversed)
    IN  [i \in 1..Len(rows) |-> Include(rows[i], accounts)]

\* GetTransferHistory as it would be without the null check.
GetTransferHistoryUnchecked(r, accountId) ==
    /\ reads[r].pc \in {"idle", "done"}
    /\ reads' = [reads EXCEPT ![r] =
            [IdleRead EXCEPT !.pc = "findMany", !.accountId = accountId]]
    /\ UNCHANGED <<variant, process, customers, employees, seeds, accounts, transfers, txOwner, txAccounts, txTransfers,
                   calls, creates, now, balances, logins, requests>>

\* The call is made and prisma.account.findUnique returns (Account rows are
\* never deleted, so when the lookup runs makes no difference); the null check.
GetTransferHistory(r, accountId) ==
    /\ reads[r].pc \in {"idle", "done"}
    /\ reads' = [reads EXCEPT ![r] =
            IF FindUnique(accounts, accountId) = <<>>
            THEN [IdleRead EXCEPT !.pc = "done", !.accountId = accountId,
                                  !.result = ErrAccount]
            ELSE [IdleRead EXCEPT !.pc = "findMany", !.accountId = accountId]]
    /\ UNCHANGED <<variant, process, customers, employees, seeds, accounts, transfers, txOwner, txAccounts, txTransfers,
                   calls, creates, now, balances, logins, requests>>

\* FindMany as it would be were the rows it returns taken out of the table.
FindManyTakesRows(r, tiesReversed) ==
    /\ reads[r].pc = "findMany"
    /\ reads' = [reads EXCEPT ![r].pc = "done", ![r].result = Ok,
                              ![r].history = FindManyTransfers(reads[r].accountId,
                                                               tiesReversed)]
    /\ transfers' = SelectSeq(transfers, LAMBDA t : ~Involves(t, reads[r].accountId))
    /\ UNCHANGED <<variant, process, customers, employees, seeds, accounts, txOwner, txAccounts, txTransfers,
                   calls, creates, now, balances, logins, requests>>

\* prisma.transfer.findMany returns, on the committed tables; the call returns
\* what it returned.
FindMany(r, tiesReversed) ==
    /\ reads[r].pc = "findMany"
    /\ reads' = [reads EXCEPT ![r].pc = "done", ![r].result = Ok,
                              ![r].history = FindManyTransfers(reads[r].accountId,
                                                               tiesReversed)]
    /\ UNCHANGED <<variant, process, customers, employees, seeds, accounts, transfers, txOwner, txAccounts, txTransfers,
                   calls, creates, now, balances, logins, requests>>

\* -------------------------------------------------------------- getBalance
\* GetBalance as it would be were the row read where an open transaction has
\* written it.
GetBalanceDirty(g, accountId) ==
    /\ balances[g].pc \in {"idle", "done"}
    /\ LET account == FindUnique(IF txOwner = 0 THEN accounts ELSE txAccounts, accountId)
       IN  balances' = [balances EXCEPT ![g] =
               IF account = <<>>
               THEN [IdleBalance EXCEPT !.pc = "done", !.accountId = accountId,
                                        !.result = ErrAccount]
               ELSE [IdleBalance EXCEPT !.pc = "done", !.accountId = accountId,
                                        !.result = Ok,
                                        !.returned = <<[accountId |-> account[1].id,
                                                        balance |-> account[1].balance]>>]]
    /\ UNCHANGED <<variant, process, customers, employees, seeds, accounts, transfers, txOwner, txAccounts, txTransfers,
                   calls, creates, now, reads, logins, requests>>

\* The call is made and prisma.account.findUnique returns, on the committed
\* table; the null check; the answer {accountId, balance}.
GetBalance(g, accountId) ==
    /\ balances[g].pc \in {"idle", "done"}
    /\ LET account == FindUnique(accounts, accountId)
       IN  balances' = [balances EXCEPT ![g] =
               IF account = <<>>
               THEN [IdleBalance EXCEPT !.pc = "done", !.accountId = accountId,
                                        !.result = ErrAccount]
               ELSE [IdleBalance EXCEPT !.pc = "done", !.accountId = accountId,
                                        !.result = Ok,
                                        !.returned = <<[accountId |-> account[1].id,
                                                        balance |-> account[1].balance]>>]]
    /\ UNCHANGED <<variant, process, customers, employees, seeds, accounts, transfers, txOwner, txAccounts, txTransfers,
                   calls, creates, now, reads, logins, requests>>

\* ------------------------------------------------------------------- login
\* bcrypt.compare(password, hash)
Compare(password, hash) ==
    hash = Hash(password)

\* prisma.employee.findUnique({where: {username}}): <<row>> or <<>> for null.
FindEmployee(username) ==
    SelectSeq(employees, LAMBDA e : e.username = username)

\* jwt.sign of the payload {employeeId, username, role}, with the option
\* expiresIn: process.env.JWT_EXPIRE || '24h'.
JwtSign(employee) ==
    [signed |-> TRUE, employeeId |-> employee.id, username |-> employee.username,
     role |-> employee.role,
     expiresIn |-> IF process.env.JWT_EXPIRE # "" THEN process.env.JWT_EXPIRE
                   ELSE "24h"]

\* The status POST /api/auth/login answers a result of login with.
LoginStatus(result) ==
    IF result = Ok THEN 200 ELSE 401

\* LoginFind as it would be were an unknown username reported as such.
LoginFindNamesUser(l, username, password) ==
    /\ logins[l].pc \in {"idle", "done"}
    /\ LET args == [IdleLogin EXCEPT !.username = username, !.password = password]
           employee == FindEmployee(username)
       IN  logins' = [logins EXCEPT ![l] =
               IF employee = <<>>
               THEN [args EXCEPT !.pc = "done", !.result = "Employee not found"]
               ELSE [args EXCEPT !.pc = "compare", !.employee = employee]]
    /\ UNCHANGED <<variant, process, customers, employees, seeds, accounts, transfers, txOwner, txAccounts, txTransfers,
                   calls, creates, now, reads, balances, requests>>

\* The call is made and prisma.employee.findUnique returns; the null check.
LoginFind(l, username, password) ==
    /\ logins[l].pc \in {"idle", "done"}
    /\ LET args == [IdleLogin EXCEPT !.username = username, !.password = password]
           employee == FindEmployee(username)
       IN  logins' = [logins EXCEPT ![l] =
               IF employee = <<>>
               THEN [args EXCEPT !.pc = "done", !.result = ErrCredentials]
               ELSE [args EXCEPT !.pc = "compare", !.employee = employee]]
    /\ UNCHANGED <<variant, process, customers, employees, seeds, accounts, transfers, txOwner, txAccounts, txTransfers,
                   calls, creates, now, reads, balances, requests>>

\* bcrypt.compare returns; the password check; the token is signed and the call
\* returns {token, employee}.
LoginCompare(l) ==
    /\ logins[l].pc = "compare"
    /\ LET employee == logins[l].employee[1]
       IN  logins' = [logins EXCEPT ![l] =
               IF ~Compare(logins[l].password, employee.password)
               THEN [@ EXCEPT !.pc = "done", !.employee = <<>>, !.result = ErrCredentials]
               ELSE [@ EXCEPT !.pc = "done", !.employee = <<>>, !.result = Ok,
                              !.returned = <<[token |-> JwtSign(employee),
                                              employee |-> [employeeId |-> employee.id,
                                                            username |-> employee.username,
                                                            role |-> employee.role]]>>]]
    /\ UNCHANGED <<variant, process, customers, employees, seeds, accounts, transfers, txOwner, txAccounts, txTransfers,
                   calls, creates, now, reads, balances, requests>>

\* ------------------------------------------------------------------- clock
\* Time passes.
Tick ==
    /\ now < MaxTime
    /\ now' = now + 1
    /\ UNCHANGED <<variant, process, customers, employees, seeds, accounts, transfers, txOwner, txAccounts, txTransfers,
                   calls, creates, reads, balances, logins, requests>>

\* A client whose call has ended makes room for its next request.
NextRequest(c) ==
    /\ calls[c].pc = "done"
    /\ Len(transfers) + Cardinality({d \in Calls : calls[d].pc \notin {"idle", "done"}})
          < MaxTransfers
    /\ calls' = [calls EXCEPT ![c] = IdleCall]
    /\ UNCHANGED <<variant, process, customers, employees, seeds, accounts, transfers, txOwner, txAccounts, txTransfers,
                   creates, now, reads, balances, logins, requests>>

Next ==
    \/ \E c \in Calls, from \in AccountIdInputs, to \in AccountIdInputs, amount \in Amounts :
            Invoke(c, from, to, amount)
    \/ \E c \in Calls : Begin(c)
    \/ \E c \in Calls : FindFrom(c)
    \/ \E c \in Calls : FindTo(c)
    \/ \E c \in Calls : UpdateFrom(c)
    \/ \E c \in Calls : UpdateTo(c)
    \/ \E c \in Calls : CreateTransfer(c)
    \/ \E c \in Calls : Commit(c)
    \/ \E c \in Calls, from \in AccountIdInputs, to \in AccountIdInputs, amount \in Amounts :
            InvokeCheckFirst(c, from, to, amount)
    \/ \E c \in Calls : FindFromCheckFirst(c)
    \/ \E c \in Calls : FindToCheckFirst(c)
    \/ \E c \in Calls : BeginCheckFirst(c)
    \/ \E c \in Calls : StoreFail(c)
    \/ \E k \in Creators, customerId \in CustomerIdInputs, initialDeposit \in Deposits :
            FindCustomer(k, customerId, initialDeposit)
    \/ \E k \in Creators : InsertNewAccount(k)

Spec == Init /\ [][Next]_vars

\* ------------------------------------------------- reading the history
\* The ledger once three accounts of two customers have been opened, each with
\* the largest deposit.
HistoryInit ==
    /\ variant \in {"transactional", "checkFirst"}
    /\ accounts = InsertAccount(InsertAccount(InsertAccount(<<>>, 1, MaxDeposit),
                                              2, MaxDeposit), 1, MaxDeposit)
    /\ transfers = <<>>
    /\ txOwner = 0
    /\ txAccounts = <<>>
    /\ txTransfers = <<>>
    /\ calls = [c \in Calls |-> IdleCall]
    /\ creates = [k \in Creators |-> IdleCreate]
    /\ now = 0
    /\ reads = [r \in Readers |-> IdleRead]
    /\ balances = [g \in Readers |-> IdleBalance]
    /\ logins = [l \in Readers |-> IdleLogin]
    /\ requests = [q \in Clients |-> IdleRequest]
    /\ customers = SeededCustomers
    /\ employees = Employees
    /\ seeds = IdleSeed
    /\ process = RunningProcess

\* Transfers of one unit between the open accounts, one after another, while
\* the clock runs and one client reads the history.
HistoryNext ==
    \/ \E c \in Calls, pair \in HistoryPairs :
            NoTransfer /\ Invoke(c, pair[1], pair[2], 1)
    \/ \E c \in Calls : Begin(c)
    \/ \E c \in Calls : FindFrom(c)
    \/ \E c \in Calls : FindTo(c)
    \/ \E c \in Calls : UpdateFrom(c)
    \/ \E c \in Calls : UpdateTo(c)
    \/ \E c \in Calls : CreateTransfer(c)
    \/ \E c \in Calls : Commit(c)
    \/ \E c \in Calls, pair \in HistoryPairs :
            NoTransfer /\ InvokeCheckFirst(c, pair[1], pair[2], 1)
    \/ \E c \in Calls : FindFromCheckFirst(c)
    \/ \E c \in Calls : FindToCheckFirst(c)
    \/ \E c \in Calls : BeginCheckFirst(c)
    \/ \E c \in Calls : NextRequest(c)
    \/ Tick
    \/ \E r \in Readers, accountId \in HistoryIdInputs :
            OnlyReader(r) /\ GetTransferHistory(r, accountId)
    \/ \E r \in Readers, tiesReversed \in BOOLEAN : FindMany(r, tiesReversed)

HistorySpec == HistoryInit /\ [][HistoryNext]_vars

\* ---------------------------------------------------- reading the ledger
\* The ledger once two accounts of two customers have been opened.
ReadInit ==
    /\ variant \in {"transactional", "checkFirst"}
    /\ accounts = InsertAccount(InsertAccount(<<>>, 1, MaxDeposit), 2, MaxDeposit)
    /\ transfers = <<>>
    /\ txOwner = 0
    /\ txAccounts = <<>>
    /\ txTransfers = <<>>
    /\ calls = [c \in Calls |-> IdleCall]
    /\ creates = [k \in Creators |-> IdleCreate]
    /\ now = 0
    /\ reads = [r \in Readers |-> IdleRead]
    /\ balances = [g \in Readers |-> IdleBalance]
    /\ logins = [l \in Readers |-> IdleLogin]
    /\ requests = [q \in Clients |-> IdleRequest]
    /\ customers = SeededCustomers
    /\ employees = Employees
    /\ seeds = IdleSeed
    /\ process = RunningProcess

\* No read operation is under way and no answer is waiting to be taken.
NoRead ==
    /\ \A r \in Readers : reads[r].pc = "idle"
    /\ \A g \in Readers : balances[g].pc = "idle"
    /\ \A l \in Readers : logins[l].pc = "idle"

\* The client takes the answer of its read operation.
TakeAnswer ==
    /\ \/ \E r \in Readers : reads[r].pc = "done"
       \/ \E g \in Readers : balances[g].pc = "done"
       \/ \E l \in Readers : logins[l].pc = "done"
    /\ reads' = [r \in Readers |-> IdleRead]
    /\ balances' = [g \in Readers |-> IdleBalance]
    /\ logins' = [l \in Readers |-> IdleLogin]
    /\ UNCHANGED <<variant, process, customers, employees, seeds, accounts, transfers, txOwner, txAccounts, txTransfers,
                   calls, creates, now, requests>>

ReadIdInputs == 1..(MaxAccounts + 1)
ReadPairs == {<<1, 2>>, <<2, 1>>}
Usernames == {"employee1", "nobody"}
Passwords == {"password123", "letmein"}

\* Transfers between the two accounts, one after another, with store
\* failures, while one client reads: a balance, a history or a login at a time.
ReadNext ==
    \/ \E c \in Calls, pair \in ReadPairs, amount \in 1..MaxAmount :
            NoTransfer /\ Invoke(c, pair[1], pair[2], amount)
    \/ \E c \in Calls : Begin(c)
    \/ \E c \in Calls : FindFrom(c)
    \/ \E c \in Calls : FindTo(c)
    \/ \E c \in Calls : UpdateFrom(c)
    \/ \E c \in Calls : UpdateTo(c)
    \/ \E c \in Calls : CreateTransfer(c)
    \/ \E c \in Calls : Commit(c)
    \/ \E c \in Calls, pair \in ReadPairs, amount \in 1..MaxAmount :
            NoTransfer /\ InvokeCheckFirst(c, pair[1], pair[2], amount)
    \/ \E c \in Calls : FindFromCheckFirst(c)
    \/ \E c \in Calls : FindToCheckFirst(c)
    \/ \E c \in Calls : BeginCheckFirst(c)
    \/ \E c \in Calls : StoreFail(c)
    \/ \E c \in Calls : NextRequest(c)
    \/ \E g \in Readers, accountId \in ReadIdInputs : NoRead /\ GetBalance(g, accountId)
    \/ \E r \in Readers, accountId \in ReadIdInputs :
            NoRead /\ GetTransferHistory(r, accountId)
    \/ \E r \in Readers, tiesReversed \in BOOLEAN : FindMany(r, tiesReversed)
    \/ \E l \in Readers, username \in Usernames, password \in Passwords :
            NoRead /\ LoginFind(l, username, password)
    \/ \E l \in Readers : LoginCompare(l)
    \/ TakeAnswer

ReadSpec == ReadInit /\ [][ReadNext]_vars

\* ------------------------------------------------- opening accounts
\* prisma.account.create fails: the store refuses the row or cannot be
\* reached, and the error reaches the caller.
InsertFails(k) ==
    /\ creates[k].pc = "insert"
    /\ creates' = [creates EXCEPT ![k].pc = "done", ![k].result = ErrStore]
    /\ UNCHANGED <<variant, process, customers, employees, seeds, accounts, transfers, txOwner, txAccounts, txTransfers,
                   calls, now, reads, balances, logins, requests>>

\* Deposits as JavaScript numbers: the finite ones and the two that are not.
JsDeposits == Deposits \cup {NaN, Infinity}

\* createAccount alone, from the empty database, with any number as deposit.
\* What the store does with a balance that is not finite the source does not
\* say: the insert fails or the row is written.
AccountNext ==
    \/ \E k \in Creators, customerId \in CustomerIdInputs, initialDeposit \in JsDeposits :
            FindCustomer(k, customerId, initialDeposit)
    \/ \E k \in Creators : InsertNewAccount(k)
    \/ \E k \in Creators : InsertFails(k)

AccountSpec == Init /\ [][AccountNext]_vars

\* ---------------------------------------------------------------- routes
PostTransfers == "POST /api/transfers"
PostAccounts == "POST /api/accounts"
GetAccount == "GET /api/accounts/:id"
GetAccountTransfers == "GET /api/accounts/:id/transfers"

ErrTransferFields == "fromAccountId, toAccountId, and amount are required fields"
ErrAccountFields == "CustomerID and Initial Deposit are required"
ErrIdRequired == "accountId is required"
ErrIdNumber == "accountId must be a valid number"
ErrUnauthorized == "Unauthorized"

\* !v of a number or of undefined
Falsy(v) ==
    v \in {0, NaN, Undefined}

Digits == <<"0", "1", "2", "3", "4", "5", "6", "7", "8", "9">>

\* The value of a decimal digit.
DigitValue(char) ==
    (CHOOSE i \in 1..Len(Digits) : Digits[i] = char) - 1

RECURSIVE LeadingDigits(_)
\* The longest prefix of decimal digits.
LeadingDigits(chars) ==
    IF chars = <<>> \/ \A i \in 1..Len(Digits) : Digits[i] # Head(chars)
    THEN <<>>
    ELSE <<Head(chars)>> \o LeadingDigits(Tail(chars))

RECURSIVE DecimalValue(_)
DecimalValue(digits) ==
    IF digits = <<>> THEN 0
    ELSE 10 * DecimalValue(SubSeq(digits, 1, Len(digits) - 1))
             + DigitValue(digits[Len(digits)])

\* parseInt(id) of a string without leading blanks or a 0x prefix: an optional
\* sign, then the digits up to the first other character; NaN without a digit.
ParseInt(chars) ==
    LET signed == chars # <<>> /\ Head(chars) \in {"-", "+"}
        digits == LeadingDigits(IF signed THEN Tail(chars) ELSE chars)
    IN  IF digits = <<>> THEN NaN
        ELSE IF signed /\ Head(chars) = "-" THEN 0 - DecimalValue(digits)
        ELSE DecimalValue(digits)

IsNaN(n) ==
    n = NaN

\* The middleware as it would be were any Bearer token let through unverified.
AuthenticateUnverified(authorization) ==
    authorization.scheme = "Bearer"

\* The authenticate middleware: the Authorization header carries a Bearer token
\* whose signature verifies.
Authenticate(authorization) ==
    /\ authorization.scheme = "Bearer"
    /\ authorization.token.signed

\* RouteCheck as it would be were toAccountId left out of the transfer route's
\* test.
RouteCheckWithoutTo(route, args) ==
    IF route = PostTransfers
    THEN IF Falsy(args.fromAccountId) \/ Falsy(args.amount)
         THEN ErrTransferFields ELSE ""
    ELSE IF route = PostAccounts
    THEN IF Falsy(args.customerId) \/ Falsy(args.initialDeposit)
         THEN ErrAccountFields ELSE ""
    ELSE IF args.id = <<>> THEN ErrIdRequired
    ELSE IF IsNaN(ParseInt(args.id)) THEN ErrIdNumber
    ELSE ""

\* The check a route makes on the request before it calls the core: the error
\* message of its 400 answer, "" when the request passes.
RouteCheck(route, args) ==
    IF route = PostTransfers
    THEN IF Falsy(args.fromAccountId) \/ Falsy(args.toAccountId) \/ Falsy(args.amount)
         THEN ErrTransferFields ELSE ""
    ELSE IF route = PostAccounts
    THEN IF Falsy(args.customerId) \/ Falsy(args.initialDeposit)
         THEN ErrAccountFields ELSE ""
    ELSE IF args.id = <<>> THEN ErrIdRequired
    ELSE IF IsNaN(ParseInt(args.id)) THEN ErrIdNumber
    ELSE ""

\* res.status(...).json({errorMessage})
ErrorMessageBody(message) ==
    [NoBody EXCEPT !.errorMessage = <<message>>]

\* res.status(...).json(results)
ResultsBody(results) ==
    [NoBody EXCEPT !.results = <<results>>]

\* The status of the answer POST /api/accounts gives to a result of the core.
\* As it would be were every failure answered 400:
CreateAccountStatusAll400(result) ==
    IF result = Ok THEN 201 ELSE 400

CreateAccountStatus(result) ==
    IF result = Ok THEN 201
    ELSE IF result = ErrCustomer THEN 404
    ELSE 400

\* The status of the answer the two GET routes give to a result of the core.
ReadStatus(result) ==
    IF result = Ok THEN 200
    ELSE IF result = ErrAccount THEN 404
    ELSE 400

\* A request arrives: the middleware answers 401 or lets it through; the route
\* answers 400 to a request that fails its check, and otherwise is about to
\* call the core.
Receive(q, route, authorization, args) ==
    /\ requests[q].pc \in {"idle", "responded"}
    /\ route = PostTransfers => Len(transfers) < MaxTransfers
    /\ route = PostAccounts => Len(accounts) < MaxAccounts
    /\ LET request == [IdleRequest EXCEPT !.route = route,
                                          !.authorization = authorization,
                                          !.args = args]
       IN  requests' = [requests EXCEPT ![q] =
               IF ~Authenticate(authorization)
               THEN [request EXCEPT !.pc = "responded", !.status = 401,
                                    !.body = [NoBody EXCEPT !.error = <<ErrUnauthorized>>]]
               ELSE IF RouteCheck(route, args) # ""
               THEN [request EXCEPT !.pc = "responded", !.status = 400,
                                    !.body = ErrorMessageBody(RouteCheck(route, args))]
               ELSE [request EXCEPT !.pc = "core"]]
    /\ UNCHANGED <<variant, process, customers, employees, seeds, accounts, transfers, txOwner, txAccounts, txTransfers,
                   calls, creates, now, reads, balances, logins>>

\* The route is about to call the core.
AtCore(q, route) ==
    requests[q].pc = "core" /\ requests[q].route = route

\* The answer to a request whose call of the core has ended.
Responded(q, status, result, returned) ==
    requests' = [requests EXCEPT ![q].pc = "responded", ![q].status = status,
                                 ![q].body = IF result = Ok THEN ResultsBody(returned)
                                             ELSE ErrorMessageBody(result)]

\* POST /api/transfers answers: 201 with the results, 404 or 400 with the
\* error's message.
RespondTransfer(q) ==
    /\ AtCore(q, PostTransfers)
    /\ calls[q].pc = "done"
    /\ Responded(q, HttpStatus(calls[q].result), calls[q].result, calls[q].returned)
    /\ calls' = [calls EXCEPT ![q] = IdleCall]
    /\ UNCHANGED <<variant, process, customers, employees, seeds, accounts, transfers, txOwner, txAccounts, txTransfers,
                   creates, now, reads, balances, logins>>

\* POST /api/accounts answers.
RespondCreateAccount(q) ==
    /\ AtCore(q, PostAccounts)
    /\ creates[q].pc = "done"
    /\ Responded(q, CreateAccountStatus(creates[q].result), creates[q].result,
                 creates[q].returned)
    /\ creates' = [creates EXCEPT ![q] = IdleCreate]
    /\ UNCHANGED <<variant, process, customers, employees, seeds, accounts, transfers, txOwner, txAccounts, txTransfers,
                   calls, now, reads, balances, logins>>

\* GET /api/accounts/:id answers.
RespondBalance(q) ==
    /\ AtCore(q, GetAccount)
    /\ balances[q].pc = "done"
    /\ Responded(q, ReadStatus(balances[q].result), balances[q].result,
                 balances[q].returned)
    /\ balances' = [balances EXCEPT ![q] = IdleBalance]
    /\ UNCHANGED <<variant, process, customers, employees, seeds, accounts, transfers, txOwner, txAccounts, txTransfers,
                   calls, creates, now, reads, logins>>

\* GET /api/accounts/:id/transfers answers.
RespondHistory(q) ==
    /\ AtCore(q, GetAccountTransfers)
    /\ reads[q].pc = "done"
    /\ Responded(q, ReadStatus(reads[q].result), reads[q].result, reads[q].history)
    /\ reads' = [reads EXCEPT ![q] = IdleRead]
    /\ UNCHANGED <<variant, process, customers, employees, seeds, accounts, transfers, txOwner, txAccounts, txTransfers,
                   calls, creates, now, balances, logins>>

Authorizations ==
    {NoAuthorization,
     [scheme |-> "Bearer", token |-> JwtSign(Employees[1])],
     [scheme |-> "Bearer", token |-> [JwtSign(Employees[1]) EXCEPT !.signed = FALSE]]}

TransferBodies ==
    {[NoArgs EXCEPT !.fromAccountId = from, !.toAccountId = to, !.amount = amount] :
        from \in {Undefined, 1, MaxAccounts + 1},
        to \in {Undefined, 1, 2, MaxAccounts + 1},
        amount \in {Undefined, -1, 0, 1, MaxAmount}}

AccountBodies ==
    {[NoArgs EXCEPT !.customerId = customerId, !.initialDeposit = initialDeposit] :
        customerId \in CustomerIdInputs \cup {Undefined},
        initialDeposit \in {Undefined, -1, 0, MaxDeposit}}

PathIds ==
    {[NoArgs EXCEPT !.id = id] : id \in {<<"1">>, <<"1", "2">>, <<"2", "x">>, <<"a", "b">>}}

RequestsOf(route) ==
    IF route = PostTransfers THEN TransferBodies
    ELSE IF route = PostAccounts THEN AccountBodies
    ELSE PathIds

\* One client sends one request after another to the four routes, with and
\* without a valid token; the core serves the requests let through.
ApiNext ==
    \/ \E q \in Clients,
          route \in {PostTransfers, PostAccounts, GetAccount, GetAccountTransfers},
          authorization \in Authorizations :
            \E args \in RequestsOf(route) :
                OnlyClient(q) /\ Receive(q, route, authorization, args)
    \/ \E q \in Clients :
            /\ AtCore(q, PostTransfers)
            /\ Invoke(q, requests[q].args.fromAccountId, requests[q].args.toAccountId,
                      requests[q].args.amount)
    \/ \E q \in Clients :
            /\ AtCore(q, PostTransfers)
            /\ InvokeCheckFirst(q, requests[q].args.fromAccountId,
                                requests[q].args.toAccountId, requests[q].args.amount)
    \/ \E c \in Clients : Begin(c)
    \/ \E c \in Clients : FindFrom(c)
    \/ \E c \in Clients : FindTo(c)
    \/ \E c \in Clients : UpdateFrom(c)
    \/ \E c \in Clients : UpdateTo(c)
    \/ \E c \in Clients : CreateTransfer(c)
    \/ \E c \in Clients : Commit(c)
    \/ \E c \in Clients : FindFromCheckFirst(c)
    \/ \E c \in Clients : FindToCheckFirst(c)
    \/ \E c \in Clients : BeginCheckFirst(c)
    \/ \E c \in Clients : StoreFail(c)
    \/ \E q \in Clients : RespondTransfer(q)
    \/ \E q \in Clients :
            /\ AtCore(q, PostAccounts)
            /\ creates[q].pc = "idle"
            /\ FindCustomer(q, requests[q].args.customerId, requests[q].args.initialDeposit)
    \/ \E k \in Clients : InsertNewAccount(k)
    \/ \E k \in Clients : InsertFails(k)
    \/ \E q \in Clients : RespondCreateAccount(q)
    \/ \E q \in Clients :
            /\ AtCore(q, GetAccount)
            /\ balances[q].pc = "idle"
            /\ GetBalance(q, ParseInt(requests[q].args.id))
    \/ \E q \in Clients : RespondBalance(q)
    \/ \E q \in Clients :
            /\ AtCore(q, GetAccountTransfers)
            /\ reads[q].pc = "idle"
            /\ GetTransferHistory(q, ParseInt(requests[q].args.id))
    \/ \E r \in Clients, tiesReversed \in BOOLEAN : FindMany(r, tiesReversed)
    \/ \E q \in Clients : RespondHistory(q)

ApiSpec == Init /\ [][ApiNext]_vars

\* ------------------------------------------------ concurrent transfers
\* The accounts opened before the concurrent transfers: PairAccounts accounts
\* of MaxDeposit each.
RECURSIVE OpenedAccounts(_)
OpenedAccounts(n) ==
    IF n = 0 THEN <<>> ELSE InsertAccount(OpenedAccounts(n - 1), 1, MaxDeposit)

ConcurrentInit ==
    /\ variant \in {"transactional", "checkFirst"}
    /\ accounts = OpenedAccounts(PairAccounts)
    /\ transfers = <<>>
    /\ txOwner = 0
    /\ txAccounts = <<>>
    /\ txTransfers = <<>>
    /\ calls = [c \in Calls |-> IdleCall]
    /\ creates = [k \in Creators |-> IdleCreate]
    /\ now = 0
    /\ reads = [r \in Readers |-> IdleRead]
    /\ balances = [g \in Readers |-> IdleBalance]
    /\ logins = [l \in Readers |-> IdleLogin]
    /\ requests = [q \in Clients |-> IdleRequest]
    /\ customers = SeededCustomers
    /\ employees = Employees
    /\ seeds = IdleSeed
    /\ process = RunningProcess

\* Pairs that share no account, pairs that share the source or cross, and a
\* pair whose destination does not exist.
ConcurrentPairs ==
    {<<1, 2>>, <<3, 4>>, <<1, 3>>, <<2, 1>>, <<3, PairAccounts + 1>>}

\* Concurrent transfers between the open accounts, with store failures.
ConcurrentNext ==
    \/ \E c \in Calls, pair \in ConcurrentPairs, amount \in 1..MaxAmount :
            Invoke(c, pair[1], pair[2], amount)
    \/ \E c \in Calls : Begin(c)
    \/ \E c \in Calls : FindFrom(c)
    \/ \E c \in Calls : FindTo(c)
    \/ \E c \in Calls : UpdateFrom(c)
    \/ \E c \in Calls : UpdateTo(c)
    \/ \E c \in Calls : CreateTransfer(c)
    \/ \E c \in Calls : Commit(c)
    \/ \E c \in Calls, pair \in ConcurrentPairs, amount \in 1..MaxAmount :
            InvokeCheckFirst(c, pair[1], pair[2], amount)
    \/ \E c \in Calls : FindFromCheckFirst(c)
    \/ \E c \in Calls : FindToCheckFirst(c)
    \/ \E c \in Calls : BeginCheckFirst(c)
    \/ \E c \in Calls : StoreFail(c)

ConcurrentSpec == ConcurrentInit /\ [][ConcurrentNext]_vars

\* ------------------------------------------------ transfers, case by case
\* One call of each kind: a part and the whole of the balance from 1 to 2, a
\* transfer back, an account to itself, amounts of 0 and below, a source and
\* a destination that do not exist.
TransferInputs ==
    {<<1, 2, 1>>, <<1, 2, MaxDeposit>>, <<2, 1, 1>>, <<1, 1, 1>>,
     <<HistoryAccounts + 1, 2, 0>>, <<1, 2, -1>>,
     <<HistoryAccounts + 1, 2, 1>>, <<1, HistoryAccounts + 1, 1>>}

\* Concurrent transfers of those kinds, with store failures.
TransferNext ==
    \/ \E c \in Calls, in \in TransferInputs : Invoke(c, in[1], in[2], in[3])
    \/ \E c \in Calls : Begin(c)
    \/ \E c \in Calls : FindFrom(c)
    \/ \E c \in Calls : FindTo(c)
    \/ \E c \in Calls : UpdateFrom(c)
    \/ \E c \in Calls : UpdateTo(c)
    \/ \E c \in Calls : CreateTransfer(c)
    \/ \E c \in Calls : Commit(c)
    \/ \E c \in Calls, in \in TransferInputs : InvokeCheckFirst(c, in[1], in[2], in[3])
    \/ \E c \in Calls : FindFromCheckFirst(c)
    \/ \E c \in Calls : FindToCheckFirst(c)
    \/ \E c \in Calls : BeginCheckFirst(c)
    \/ \E c \in Calls : StoreFail(c)

\* The three accounts of HistoryInit under concurrent transfers.
TransferSpec == HistoryInit /\ [][TransferNext]_vars

\* ------------------------------------------- opening accounts, then transfers
\* A transfer between the first two accounts and one to an account that does
\* not exist.
OpenTransfers ==
    {<<1, 2, 1>>, <<1, MaxAccounts + 1, 1>>}

\* An account for a seeded customer and one for a customer there is not, with
\* a deposit above 0 and with one that is not.
OpenAccounts ==
    {<<1, MaxDeposit>>, <<NumCustomers + 1, MaxDeposit>>, <<1, 0>>, <<1, -1>>,
     <<NumCustomers + 1, 0>>}

\* From the empty database: accounts are opened one call at a time while
\* transfers run one at a time, with store failures.
OpenNext ==
    \/ \E c \in Calls, in \in OpenTransfers : NoCall /\ Invoke(c, in[1], in[2], in[3])
    \/ \E c \in Calls : Begin(c)
    \/ \E c \in Calls : FindFrom(c)
    \/ \E c \in Calls : FindTo(c)
    \/ \E c \in Calls : UpdateFrom(c)
    \/ \E c \in Calls : UpdateTo(c)
    \/ \E c \in Calls : CreateTransfer(c)
    \/ \E c \in Calls : Commit(c)
    \/ \E c \in Calls, in \in OpenTransfers :
            NoCall /\ InvokeCheckFirst(c, in[1], in[2], in[3])
    \/ \E c \in Calls : FindFromCheckFirst(c)
    \/ \E c \in Calls : FindToCheckFirst(c)
    \/ \E c \in Calls : BeginCheckFirst(c)
    \/ \E c \in Calls : StoreFail(c)
    \/ \E k \in Creators, in \in OpenAccounts :
            OnlyCreator(k) /\ FindCustomer(k, in[1], in[2])
    \/ \E k \in Creators : InsertNewAccount(k)

OpenSpec == Init /\ [][OpenNext]_vars

\* ------------------------------------------------- a call run on its own
\* The outcome of accountTransfer(from, to, amount) when no other call runs:
\* the checks of the deployed version in its order.
AloneResult(version, table, from, to, amount) ==
    IF NotPositive(amount) THEN ErrAmount
    ELSE IF version = "transactional" /\ from = to THEN ErrSame
    ELSE IF FindUnique(table, from) = <<>> THEN ErrSource
    ELSE IF FindUnique(table, to) = <<>> THEN ErrDest
    ELSE IF Insufficient(FindUnique(table, from)[1], amount) THEN ErrFunds
    ELSE IF from = to THEN ErrSame
    ELSE Ok

\* The Account table after the call has run on its own.
AloneAccounts(version, table, from, to, amount) ==
    IF AloneResult(version, table, from, to, amount) = Ok
    THEN Increment(Decrement(table, from, amount), to, amount)
    ELSE table

\* The Transfer table after the call has run on its own.
AloneTransfers(version, table, rows, from, to, amount, clock) ==
    IF AloneResult(version, table, from, to, amount) = Ok
    THEN InsertTransfer(rows, from, to, amount, clock)
    ELSE rows

\* -------------------------------------------------------------------- seed
\* The rows of a table up to row n.
FirstRows(table, n) ==
    SubSeq(table, 1, n)

\* The store before a run of the seed: as the migration created it, or as an
\* earlier run, whole or cut short, has left it; and the seed script in use.
SeedInit ==
    /\ variant \in {"transactional", "checkFirst"}
    /\ accounts = <<>>
    /\ transfers = <<>>
    /\ txOwner = 0
    /\ txAccounts = <<>>
    /\ txTransfers = <<>>
    /\ calls = [c \in Calls |-> IdleCall]
    /\ creates = [k \in Creators |-> IdleCreate]
    /\ now = 0
    /\ reads = [r \in Readers |-> IdleRead]
    /\ balances = [g \in Readers |-> IdleBalance]
    /\ logins = [l \in Readers |-> IdleLogin]
    /\ requests = [q \in Clients |-> IdleRequest]
    /\ \E k \in {0, 2, NumCustomers}, e \in 0..Len(Employees) :
          /\ e > 0 => k = NumCustomers
          /\ customers = FirstRows(SeededCustomers, k)
          /\ employees = FirstRows(Employees, e)
    /\ \E version \in {"upsert", "createMany"} :
          seeds = [IdleSeed EXCEPT !.version = version]
    /\ process = RunningProcess

\* A customer row with that name, if any (findFirst): <<row>> or <<>>.
FindFirstCustomer(name) ==
    LET found == SelectSeq(customers, LAMBDA row : row.name = name)
    IN  IF found = <<>> THEN <<>> ELSE <<found[1]>>

\* prisma.customer.create({data: {name}})
CreateCustomerRow(table, name) ==
    Append(table, [id |-> Len(table) + 1, name |-> name])

\* prisma.employee.upsert({where: {username}, update, create})
Upsert(table, employee) ==
    IF \E i \in 1..Len(table) : table[i].username = employee.username
    THEN [i \in 1..Len(table) |->
              IF table[i].username = employee.username
              THEN [table[i] EXCEPT !.password = employee.password,
                                    !.role = employee.role]
              ELSE table[i]]
    ELSE Append(table, [employee EXCEPT !.id = Len(table) + 1])

\* The seed script is run.
StartSeed ==
    /\ seeds.pc \in {"idle", "done", "failed"}
    /\ seeds.runs < MaxSeedRuns
    /\ seeds' = [seeds EXCEPT !.pc = IF seeds.version = "upsert" THEN "findFirst"
                                     ELSE "createManyCustomers",
                              !.i = 1, !.runs = @ + 1, !.result = ""]
    /\ UNCHANGED <<variant, process, customers, employees, accounts, transfers, txOwner,
                   txAccounts, txTransfers, calls, creates, now, reads, balances,
                   logins, requests>>

\* The loop has dealt with customer i.
NextCustomer ==
    IF seeds.i < NumCustomers
    THEN [seeds EXCEPT !.pc = "findFirst", !.i = @ + 1]
    ELSE [seeds EXCEPT !.pc = "upsert", !.i = 1]

\* prisma.customer.findFirst({where: {name}}) returns; the test on it.
SeedFindFirst ==
    /\ seeds.pc = "findFirst"
    /\ seeds' = IF FindFirstCustomer(CustomerNames[seeds.i]) = <<>>
                THEN [seeds EXCEPT !.pc = "create"]
                ELSE NextCustomer
    /\ UNCHANGED <<variant, process, customers, employees, accounts, transfers, txOwner,
                   txAccounts, txTransfers, calls, creates, now, reads, balances,
                   logins, requests>>

\* prisma.customer.create returns.
SeedCreate ==
    /\ seeds.pc = "create"
    /\ customers' = CreateCustomerRow(customers, CustomerNames[seeds.i])
    /\ seeds' = NextCustomer
    /\ UNCHANGED <<variant, process, employees, accounts, transfers, txOwner,
                   txAccounts, txTransfers, calls, creates, now, reads, balances,
                   logins, requests>>

\* prisma.employee.upsert returns, for employee1 and then for manager1; after
\* the second the run ends.
SeedUpsert ==
    /\ seeds.pc = "upsert"
    /\ employees' = Upsert(employees, Employees[seeds.i])
    /\ seeds' = IF seeds.i < Len(Employees)
                THEN [seeds EXCEPT !.i = @ + 1]
                ELSE [seeds EXCEPT !.pc = "done", !.result = Ok]
    /\ UNCHANGED <<variant, process, customers, accounts, transfers, txOwner,
                   txAccounts, txTransfers, calls, creates, now, reads, balances,
                   logins, requests>>

RECURSIVE CreateMany(_, _)
\* createMany({data}) on a table of rows with ids
CreateMany(table, data) ==
    IF data = <<>> THEN table
    ELSE CreateMany(Append(table, [Head(data) EXCEPT !.id = Len(table) + 1]), Tail(data))

\* The earlier seed: prisma.customer.createMany returns.
SeedCreateManyCustomers ==
    /\ seeds.pc = "createManyCustomers"
    /\ customers' = CreateMany(customers, SeededCustomers)
    /\ seeds' = [seeds EXCEPT !.pc = "createManyEmployees"]
    /\ UNCHANGED <<variant, process, employees, accounts, transfers, txOwner,
                   txAccounts, txTransfers, calls, creates, now, reads, balances,
                   logins, requests>>

\* The earlier seed: prisma.employee.createMany returns, or is refused whole
\* because a username is taken; main's catch then ends the process.
SeedCreateManyEmployees ==
    /\ seeds.pc = "createManyEmployees"
    /\ IF \E i \in 1..Len(employees), j \in 1..Len(Employees) :
              employees[i].username = Employees[j].username
       THEN /\ seeds' = [seeds EXCEPT !.pc = "failed", !.result = ErrUnique]
            /\ UNCHANGED employees
       ELSE /\ employees' = CreateMany(employees, Employees)
            /\ seeds' = [seeds EXCEPT !.pc = "done", !.result = Ok]
    /\ UNCHANGED <<variant, process, customers, accounts, transfers, txOwner,
                   txAccounts, txTransfers, calls, creates, now, reads, balances,
                   logins, requests>>

SeedNext ==
    \/ StartSeed
    \/ SeedFindFirst
    \/ SeedCreate
    \/ SeedUpsert
    \/ SeedCreateManyCustomers
    \/ SeedCreateManyEmployees

SeedSpec == SeedInit /\ [][SeedNext]_vars

\* ------------------------------------------------------- starting the server
ErrMissingEnv == "Missing required environment variables"

\* The environments a server is started in.
Environments ==
    [DATABASE_URL : {"", " ", "file:./dev.db"},
     JWT_SECRET : {"", "secret"},
     JWT_EXPIRE_IN : {"", "1h", DefaultExpireIn},
     JWT_EXPIRE : {"", "1h"},
     PORT : {"", "8080"}]

\* The seeded store and a server process about to start.
EnvInit ==
    /\ variant \in {"transactional", "checkFirst"}
    /\ accounts = <<>>
    /\ transfers = <<>>
    /\ txOwner = 0
    /\ txAccounts = <<>>
    /\ txTransfers = <<>>
    /\ calls = [c \in Calls |-> IdleCall]
    /\ creates = [k \in Creators |-> IdleCreate]
    /\ now = 0
    /\ reads = [r \in Readers |-> IdleRead]
    /\ balances = [g \in Readers |-> IdleBalance]
    /\ logins = [l \in Readers |-> IdleLogin]
    /\ requests = [q \in Clients |-> IdleRequest]
    /\ customers = SeededCustomers
    /\ employees = Employees
    /\ seeds = IdleSeed
    /\ \E env \in Environments :
          process = [pc |-> "starting", result |-> "", env |-> env]

\* The two loops of validateEnvVars: the required variables that are missing.
MissingVars(env) ==
    {varName \in {"DATABASE_URL", "JWT_SECRET"} : Blank(env[varName])}

\* The loop over optionalVars: a variable that is unset gets its default.
WithDefaults(env) ==
    [env EXCEPT !.JWT_EXPIRE_IN = IF @ = "" THEN DefaultExpireIn ELSE @,
                !.PORT = IF @ = "" THEN DefaultPort ELSE @]

\* validateEnvVars on application startup: the defaults are written, and the
\* call throws when a required variable is missing.
ValidateEnvVars ==
    /\ process.pc = "starting"
    /\ process' = IF MissingVars(process.env) # {}
                  THEN [pc |-> "failed", result |-> ErrMissingEnv,
                        env |-> WithDefaults(process.env)]
                  ELSE [pc |-> "running", result |-> Ok,
                        env |-> WithDefaults(process.env)]
    /\ UNCHANGED <<variant, customers, employees, seeds, accounts, transfers, txOwner,
                   txAccounts, txTransfers, calls, creates, now, reads, balances,
                   logins, requests>>

\* The server starts, and one client logs in time after time.
EnvNext ==
    \/ ValidateEnvVars
    \/ \E l \in Readers, username \in Usernames, password \in Passwords :
            process.pc = "running" /\ NoRead /\ LoginFind(l, username, password)
    \/ \E l \in Readers : LoginCompare(l)
    \/ TakeAnswer

EnvSpec == EnvInit /\ [][EnvNext]_vars

\* ================================================================== claims
AccountIds == 1..Len(accounts)
Done(c) == calls[c].pc = "done"
Succeeded(c) == Done(c) /\ calls[c].result = Ok

\* The call takes its last step: it returns or throws.
Finishes(c) == calls[c].pc # "done" /\ calls'[c].pc = "done"

\* Kinds of the error taxonomy.
InvalidArgumentErrors == {ErrAmount, ErrSame, ErrFunds}
NotFoundErrors == {ErrSource, ErrDest}

\* C1: in every committed state every account's balance is at least 0.
C1_BalanceNonNegative ==
    \A i \in AccountIds : accounts[i].balance >= 0

\* Two finished calls debit the same existing source f, each with a positive
\* amount to another existing account, no store call of theirs failed, and
\* nothing else moved money into or out of f.
TwoDebitsOf(c1, c2, f) ==
    /\ c1 # c2 /\ Done(c1) /\ Done(c2)
    /\ calls[c1].from = f /\ calls[c2].from = f
    /\ \A c \in {c1, c2} :
          /\ calls[c].amount > 0
          /\ calls[c].to # f
          /\ calls[c].result \notin {ErrStore, ErrSource, ErrDest}
    /\ \A c \in Calls \ {c1, c2} :
          calls[c].pc = "idle" \/ (calls[c].from # f /\ calls[c].to # f)

\* C2: two calls debit a source of balance B with a1 <= B, a2 <= B and
\* a1 + a2 > B: exactly one succeeds, the other fails with insufficient funds,
\* and the source is left with B minus the amount of the one that succeeded.
C2_OneOfTwoDebits ==
    \A c1 \in Calls, c2 \in Calls, f \in AccountIds :
        LET B == accounts[f].deposit
            a1 == calls[c1].amount
            a2 == calls[c2].amount
        IN  (TwoDebitsOf(c1, c2, f) /\ a1 <= B /\ a2 <= B /\ a1 + a2 > B)
            => \/ /\ calls[c1].result = Ok /\ calls[c2].result = ErrFunds
                  /\ accounts[f].balance = B - a1
               \/ /\ calls[c2].result = Ok /\ calls[c1].result = ErrFunds
                  /\ accounts[f].balance = B - a2

\* The committed tables after the row r and both balance changes of it.
TransferApplied(r) ==
    /\ transfers' = Append(transfers, r)
    /\ Len(accounts') = Len(accounts)
    /\ accounts' = Increment(Decrement(accounts, r.fromAccountId, r.amount),
                             r.toAccountId, r.amount)

\* No committed Account row that exists changes, and no Transfer row appears.
NoTransferEffect ==
    /\ transfers' = transfers
    /\ Len(accounts') >= Len(accounts)
    /\ \A i \in AccountIds : accounts'[i] = accounts[i]

\* C3: a transfer is all-or-nothing for every reader of the committed tables:
\* a step either shows none of the three effects of a transfer, or shows the
\* new Transfer row together with the decrement and the increment it records.
C3_AllOrNothing ==
    [][ \/ NoTransferEffect
        \/ /\ Len(transfers') = Len(transfers) + 1
           /\ TransferApplied(transfers'[Len(transfers')]) ]_vars

\* A transaction holds the decrement and the increment while the committed
\* tables show neither.
C3_Witness ==
    \E c \in Calls :
        /\ txOwner = c
        /\ calls[c].pc = "createTransfer"
        /\ txAccounts # accounts
        /\ transfers = <<>>

\* C4: a call that fails changes no committed row: none of its steps does,
\* the failing one included, whatever it had done inside its transaction.
C4_FailureLeavesNothing ==
    [][ \A c \in Calls :
          (calls'[c] # calls[c] /\ ~(calls'[c].pc = "done" /\ calls'[c].result = Ok))
          => (accounts' = accounts /\ transfers' = transfers) ]_vars

\* A call failed on a store call made after its decrement and its increment.
C4_Witness ==
    \E c \in Calls :
        /\ Done(c)
        /\ calls[c].result = ErrStore
        /\ calls[c].storeOps >= 6
        /\ \E d \in Calls : Done(d) /\ calls[d].result \in InvalidArgumentErrors

RECURSIVE TotalBalance(_)
TotalBalance(table) ==
    IF table = <<>> THEN 0
    ELSE table[Len(table)].balance + TotalBalance(SubSeq(table, 1, Len(table) - 1))

Undisturbed(c) ==
    /\ Len(accounts) = calls[c].startAccounts
    /\ Len(transfers) = calls[c].startTransfers

\* C6: a call between two distinct existing accounts, with no other write
\* committed while it runs and no store failure: with 0 < a <= B it succeeds
\* and leaves the source at B - a and the destination a higher; with a > B it
\* fails with insufficient funds and leaves both balances as they were.
C6_TransferOutcome ==
    [][ \A c \in Calls :
          LET from == calls[c].from
              to == calls[c].to
              a == calls[c].amount
          IN  ( /\ Finishes(c) /\ calls[c].pc # "idle" /\ Undisturbed(c)
                /\ from # to /\ from \in AccountIds /\ to \in AccountIds
                /\ a > 0 /\ calls'[c].result # ErrStore )
              => IF a <= accounts[from].balance
                 THEN /\ calls'[c].result = Ok
                      /\ accounts' = [accounts EXCEPT
                                        ![from].balance = accounts[from].balance - a,
                                        ![to].balance = accounts[to].balance + a]
                 ELSE /\ calls'[c].result = ErrFunds
                      /\ accounts' = accounts ]_vars

\* A transfer of the whole balance succeeded and left the source at exactly 0.
C6_Witness ==
    \E c \in Calls :
        /\ Succeeded(c)
        /\ Len(transfers) = 1
        /\ accounts[calls[c].from].balance = 0
        /\ accounts[calls[c].from].deposit = calls[c].amount

\* C7: the error reported is that of the first violated check in the order
\* amount > 0, from # to, source exists, destination exists, balance covers
\* the amount.
C7_CheckOrder ==
    \A c \in Calls :
        LET from == calls[c].from
            to == calls[c].to
            a == calls[c].amount
            result == calls[c].result
        IN  (Done(c) /\ result # ErrStore) =>
               /\ a <= 0 => result = ErrAmount
               /\ (a > 0 /\ from = to) => result = ErrSame
               /\ (a > 0 /\ from # to /\ from \notin AccountIds) => result = ErrSource
               /\ (a > 0 /\ from # to /\ to \notin AccountIds)
                     => result \in NotFoundErrors

\* C8: a transfer from an account to itself fails with an error of the
\* InvalidArgument kind, answered with status 400, and no Transfer row has the
\* same account on both sides.
C8_SelfTransferInvalid ==
    /\ \A c \in Calls :
          (Done(c) /\ calls[c].from = calls[c].to /\ calls[c].result # ErrStore)
          => /\ calls[c].result \in InvalidArgumentErrors
             /\ HttpStatus(calls[c].result) = 400
    /\ \A i \in 1..Len(transfers) :
          transfers[i].fromAccountId # transfers[i].toAccountId

C10_NotFound ==
    [][ \A c \in Calls :
          ( /\ Finishes(c) /\ calls[c].pc # "idle"
            /\ calls[c].amount > 0 /\ calls[c].from # calls[c].to
            /\ calls'[c].result # ErrStore )
          => /\ calls[c].from \notin AccountIds => calls'[c].result = ErrSource
             /\ (calls[c].from <= calls[c].startAccounts /\ calls[c].to \notin AccountIds)
                   => calls'[c].result = ErrDest
             /\ calls'[c].result \in NotFoundErrors
                   => (accounts' = accounts /\ transfers' = transfers) ]_vars

\* One call failed for its missing source, another for its missing destination.
C10_Witness ==
    \E c \in Calls, d \in Calls :
        /\ Done(c) /\ calls[c].result = ErrSource /\ calls[c].from \notin AccountIds
        /\ Done(d) /\ calls[d].result = ErrDest /\ calls[d].from \in AccountIds
        /\ calls[d].to \notin AccountIds

\* C11: every Transfer row, committed or written by the open transaction, has
\* different accounts on its two sides and an amount above 0.
C11_TransferRowsValid ==
    \A table \in {transfers, txTransfers} :
        \A i \in 1..Len(table) :
            /\ table[i].fromAccountId # table[i].toAccountId
            /\ table[i].amount > 0

\* A Transfer row is committed, and a call with a positive amount from an
\* existing account to itself has been refused.
C11_Witness ==
    /\ Len(transfers) = 1
    /\ \E c \in Calls :
          /\ Done(c) /\ calls[c].result = ErrSame
          /\ calls[c].from \in AccountIds /\ calls[c].amount > 0
          /\ accounts[calls[c].from].balance >= calls[c].amount

\* The calls that have returned successfully.
SucceededCalls == {c \in Calls : Succeeded(c)}

\* C12: Transfer rows come from successful calls only: a call that returns
\* successfully commits exactly one new row, which carries the call's source,
\* destination and amount; a call that fails commits none; no row is committed
\* by anything else; and there are as many rows as successful calls.
C12_RowsFromSuccessfulTransfers ==
    [][ /\ \A c \in Calls :
              Finishes(c) =>
                 IF calls'[c].result = Ok
                 THEN /\ Len(transfers') = Len(transfers) + 1
                      /\ SubSeq(transfers', 1, Len(transfers)) = transfers
                      /\ LET row == transfers'[Len(transfers')]
                         IN  /\ row.fromAccountId = calls'[c].from
                             /\ row.toAccountId = calls'[c].to
                             /\ row.amount = calls'[c].amount
                 ELSE transfers' = transfers
        /\ transfers' # transfers
              => \E c \in Calls : Finishes(c) /\ calls'[c].result = Ok
        /\ Len(transfers') = Cardinality({c \in Calls : calls'[c].pc = "done"
                                                       /\ calls'[c].result = Ok}) ]_vars

\* One call succeeded and its row is the only one, the other call failed for
\* insufficient funds after the first had been committed.
C12_Witness ==
    /\ Len(transfers) = 1
    /\ Cardinality(SucceededCalls) = 1
    /\ \E c \in Calls : Done(c) /\ calls[c].result = ErrFunds
                         /\ calls[c].amount <= accounts[calls[c].from].deposit

\* C14: a call that returns successfully returns the Transfer row it committed
\* and the two Account rows as this transfer committed them: the source with
\* the balance it had before the commit less the amount, the destination with
\* the balance it had before the commit plus the amount.
C14_ReturnedState ==
    [][ \A c \in Calls :
          (Finishes(c) /\ calls'[c].result = Ok) =>
             LET ret == calls'[c].returned[1]
                 from == calls'[c].from
                 to == calls'[c].to
             IN  /\ ret.transfer = transfers'[Len(transfers')]
                 /\ Len(transfers') = Len(transfers) + 1
                 /\ ret.fromAccount = accounts'[from]
                 /\ ret.toAccount = accounts'[to]
                 /\ ret.fromAccount.balance = accounts[from].balance - calls'[c].amount
                 /\ ret.toAccount.balance = accounts[to].balance + calls'[c].amount ]_vars

\* A call has returned while another call on the same two accounts, made
\* before the first was committed, is still running.
C14_Witness ==
    \E c \in Calls, d \in Calls :
        /\ Succeeded(c)
        /\ calls[d].pc \notin {"idle", "done"}
        /\ calls[d].startTransfers = 0
        /\ {calls[d].from, calls[d].to} = {calls[c].from, calls[c].to}
        /\ calls[c].returned[1].fromAccount.balance = accounts[calls[c].from].balance

\* The call waits for a transaction of its own while another call's is open.
InConflict(c) ==
    calls[c].pc = "begin" /\ txOwner \notin {0, c}

\* C15: a call that meets a conflict with another transfer is not ended by
\* it with the store's error as its outcome: it ends in success, in a
\* NotFound or InvalidArgument error, or in a failure answered with a status
\* that is neither NotFound's nor InvalidArgument's.
C15_ConflictNotSurfaced ==
    [][ \A c \in Calls :
          (InConflict(c) /\ Finishes(c))
          => \/ calls'[c].result \in {Ok} \cup NotFoundErrors \cup InvalidArgumentErrors
             \/ HttpStatus(calls'[c].result)
                   \notin {HttpStatus(ErrSource), HttpStatus(ErrAmount)} ]_vars

\* C20: a createAccount call that returns successfully has inserted one
\* Account row: its id is that of no row there was, its customer is the one
\* given and its balance the deposit given; the call returns that row; every
\* other Account row and every Transfer row is as it was.
C20_CreateAccountFrame ==
    [][ \A k \in Creators :
          (creates[k].pc # "done" /\ creates'[k].pc = "done" /\ creates'[k].result = Ok)
          => /\ Len(accounts') = Len(accounts) + 1
             /\ \A i \in AccountIds : accounts'[i] = accounts[i]
             /\ LET row == accounts'[Len(accounts')]
                IN  /\ \A i \in AccountIds : accounts[i].id # row.id
                    /\ row.customerId = creates[k].customerId
                    /\ row.balance = creates[k].initialDeposit
                    /\ creates'[k].returned = <<row>>
             /\ transfers' = transfers ]_vars

\* A second account was created after a transfer call had run against the
\* first; the call returned the new row.
C20_Witness ==
    \E k \in Creators :
        /\ creates[k].pc = "done" /\ creates[k].result = Ok
        /\ Len(accounts) = 2
        /\ creates[k].returned = <<accounts[2]>>
        /\ accounts[2].balance = MaxDeposit
        /\ \E c \in Calls : Done(c) /\ calls[c].result = ErrDest /\ calls[c].from = 1

\* C13: the Transfer table only grows at its end: every step leaves every
\* row there is in its place with its id, source, destination, amount and
\* timestamp.
C13_AppendOnly ==
    [][ /\ Len(transfers') >= Len(transfers)
        /\ \A i \in 1..Len(transfers) :
              /\ transfers'[i].id = transfers[i].id
              /\ transfers'[i].fromAccountId = transfers[i].fromAccountId
              /\ transfers'[i].toAccountId = transfers[i].toAccountId
              /\ transfers'[i].amount = transfers[i].amount
              /\ transfers'[i].timestamp = transfers[i].timestamp ]_vars

\* Three rows were committed at three times, and the history was read while
\* only the first was there.
C13_Witness ==
    /\ Len(transfers) = 3
    /\ transfers[1].timestamp < transfers[2].timestamp
    /\ transfers[2].timestamp < transfers[3].timestamp
    /\ \E r \in Readers :
          /\ reads[r].pc = "done" /\ reads[r].result = Ok
          /\ Len(reads[r].history) = 1
          /\ reads[r].history[1].id = 1

\* The committed Transfer rows the account sent, and those it received.
SentIds(accountId) ==
    {i \in 1..Len(transfers) : transfers[i].fromAccountId = accountId}
ReceivedIds(accountId) ==
    {i \in 1..Len(transfers) : transfers[i].toAccountId = accountId}

\* The history call returns what its query returned.
Answers(r) == reads[r].pc = "findMany" /\ reads'[r].pc = "done"

\* The history call has returned a history.
Answered(r) == reads[r].pc = "done" /\ reads[r].result = Ok

\* C16: the history returned for an account that has sent N and received M
\* committed transfers has N + M items: each of those rows once, with its
\* fields, and no other row.
C16_HistoryComplete ==
    [][ \A r \in Readers :
          Answers(r) =>
             LET a == reads[r].accountId
                 h == reads'[r].history
                 ids == SentIds(a) \cup ReceivedIds(a)
             IN  /\ reads'[r].result = Ok
                 /\ Len(h) = Cardinality(SentIds(a)) + Cardinality(ReceivedIds(a))
                 /\ \A i \in ids : Cardinality({j \in 1..Len(h) : h[j].id = i}) = 1
                 /\ \A j \in 1..Len(h) :
                       /\ h[j].id \in ids
                       /\ h[j].fromAccountId = transfers[h[j].id].fromAccountId
                       /\ h[j].toAccountId = transfers[h[j].id].toAccountId
                       /\ h[j].amount = transfers[h[j].id].amount
                       /\ h[j].timestamp = transfers[h[j].id].timestamp ]_vars

\* The history of account 1 holds the transfer it sent and the one it
\* received, and not the third transfer there is.
C16_Witness ==
    \E r \in Readers :
        /\ Answered(r)
        /\ Len(transfers) = 3
        /\ Len(reads[r].history) = 2
        /\ \E j \in 1..2 : reads[r].history[j].fromAccountId = reads[r].accountId
        /\ \E j \in 1..2 : reads[r].history[j].toAccountId = reads[r].accountId
        /\ \E i \in 1..3 : ~Involves(transfers[i], reads[r].accountId)

\* C17: the history returned is newest first: no item has a timestamp above
\* that of an item before it, so that the first item has the latest timestamp
\* of the account's rows and the last item the earliest.
C17_NewestFirst ==
    [][ \A r \in Readers :
          Answers(r) =>
             LET a == reads[r].accountId
                 h == reads'[r].history
             IN  /\ \A i \in 1..Len(h) : \A j \in 1..Len(h) :
                       i < j => h[i].timestamp >= h[j].timestamp
                 /\ \A i \in SentIds(a) \cup ReceivedIds(a) :
                       /\ h[1].timestamp >= transfers[i].timestamp
                       /\ h[Len(h)].timestamp <= transfers[i].timestamp ]_vars

\* A history of three transfers made at three times.
C17_Witness ==
    \E r \in Readers :
        /\ Answered(r)
        /\ Len(reads[r].history) = 3
        /\ reads[r].history[1].timestamp > reads[r].history[2].timestamp
        /\ reads[r].history[2].timestamp > reads[r].history[3].timestamp
        /\ reads[r].history[1].id = 3

\* C18: a history call for an id no account has fails with "Account not
\* found"; a call for an account there is does not, and returns the empty
\* sequence when no Transfer row involves the account.
C18_HistoryNotFound ==
    [][ \A r \in Readers :
          /\ (reads[r].pc \in {"idle", "done"} /\ reads'[r] # reads[r])
              => IF reads'[r].accountId \in AccountIds
                 THEN reads'[r].pc = "findMany"
                 ELSE reads'[r].pc = "done" /\ reads'[r].result = ErrAccount
          /\ Answers(r)
              => /\ reads'[r].result = Ok
                 /\ (SentIds(reads[r].accountId) \cup ReceivedIds(reads[r].accountId) = {})
                       => reads'[r].history = <<>> ]_vars

\* A call for an id no account has failed while accounts and transfers exist.
C18_Witness ==
    \E r \in Readers :
        /\ reads[r].pc = "done"
        /\ reads[r].result = ErrAccount
        /\ reads[r].accountId \notin AccountIds
        /\ reads[r].history = <<>>
        /\ Len(transfers) > 0

\* C19: every item of a history returned carries, for the source and for the
\* destination of its Transfer row, the account's id and the name of the
\* customer the Account row belongs to.
C19_HistoryNames ==
    \A r \in Readers :
        Answered(r) =>
           \A j \in 1..Len(reads[r].history) :
               LET item == reads[r].history[j]
                   row == transfers[item.id]
               IN  /\ item.fromAccount.id = row.fromAccountId
                   /\ item.fromAccount.customer.name
                        = CustomerNames[accounts[row.fromAccountId].customerId]
                   /\ item.toAccount.id = row.toAccountId
                   /\ item.toAccount.customer.name
                        = CustomerNames[accounts[row.toAccountId].customerId]

\* A history with a transfer from the first customer to the second and one
\* from the second to the first.
C19_Witness ==
    \E r \in Readers :
        /\ Answered(r)
        /\ \E j \in 1..Len(reads[r].history) :
              /\ reads[r].history[j].fromAccount.customer.name = CustomerNames[1]
              /\ reads[r].history[j].toAccount.customer.name = CustomerNames[2]
        /\ \E j \in 1..Len(reads[r].history) :
              /\ reads[r].history[j].fromAccount.customer.name = CustomerNames[2]
              /\ reads[r].history[j].toAccount.customer.name = CustomerNames[1]

\* The ids of the Customer table.
CustomerIds == 1..NumCustomers

\* A createAccount call is made: its first step.
CreateCalled(k) ==
    creates[k].pc \in {"idle", "done"} /\ creates'[k] # creates[k]

\* C21: a createAccount call with a customer id that no Customer has fails
\* with "Customer not found", whatever the deposit, and no Account row is
\* inserted by it.
C21_CustomerNotFound ==
    [][ \A k \in Creators :
          (CreateCalled(k) /\ creates'[k].customerId \notin CustomerIds)
          => /\ creates'[k].pc = "done"
             /\ creates'[k].result = ErrCustomer
             /\ accounts' = accounts ]_vars

\* A call with a good deposit failed for its customer, after an account had
\* been opened.
C21_Witness ==
    \E k \in Creators :
        /\ creates[k].pc = "done" /\ creates[k].result = ErrCustomer
        /\ creates[k].customerId \notin CustomerIds
        /\ creates[k].initialDeposit > 0
        /\ Len(accounts) = 1

C23_FiniteDeposit ==
    /\ \A k \in Creators :
          creates[k].pc = "insert"
          => (IsFinite(creates[k].initialDeposit) /\ creates[k].initialDeposit > 0)
    /\ \A i \in AccountIds : IsFinite(accounts[i].balance)

\* ------------------------------------------------------------------ C24
RECURSIVE SumAmounts(_)
\* The sum of the amounts of a sequence of Transfer rows.
SumAmounts(rows) ==
    IF rows = <<>> THEN 0 ELSE Head(rows).amount + SumAmounts(Tail(rows))

\* What the Transfer rows of a table say an account holds: its opening deposit,
\* plus what it received, minus what it sent.
LedgerBalance(accountTable, transferTable, accountId) ==
    accountTable[accountId].deposit
        + SumAmounts(SelectSeq(transferTable, LAMBDA t : t.toAccountId = accountId))
        - SumAmounts(SelectSeq(transferTable, LAMBDA t : t.fromAccountId = accountId))

\* A step in which getBalance answers.
BalanceAnswered(g) ==
    balances'[g] # balances[g] /\ balances'[g].pc = "done"

\* C24: getBalance of an id no account has fails with "Account not found";
\* of an existing account it returns {accountId, balance} where balance is the
\* opening deposit adjusted by exactly the transfers committed at the time of
\* the read, whatever an open transaction has written so far.
C24_GetBalance ==
    [][\A g \in Readers :
         BalanceAnswered(g) =>
             LET accountId == balances'[g].accountId
             IN  IF accountId \notin AccountIds
                 THEN balances'[g].result = ErrAccount /\ balances'[g].returned = <<>>
                 ELSE /\ balances'[g].result = Ok
                      /\ balances'[g].returned =
                             <<[accountId |-> accountId,
                                balance |-> LedgerBalance(accounts, transfers, accountId)]>>]_vars

\* A balance was returned for an account that an open transaction has debited
\* or credited without having committed yet.
C24_Witness ==
    \E g \in Readers :
        /\ balances[g].pc = "done"
        /\ balances[g].result = Ok
        /\ txOwner # 0
        /\ transfers # <<>>
        /\ LET accountId == balances[g].accountId
           IN  /\ balances[g].returned[1].balance = accounts[accountId].balance
               /\ accounts[accountId].balance # accounts[accountId].deposit
               /\ txAccounts[accountId].balance # accounts[accountId].balance
\* ------------------------------------------------------------------ C25
\* A step of getBalance, getTransferHistory or login.
ReadStep ==
    reads' # reads \/ balances' # balances \/ logins' # logins

\* A step in which a transfer's transaction commits.
CommitStep ==
    \E c \in Calls : txOwner = c /\ calls[c].pc = "commit" /\ txOwner' = 0 /\ Succeeded(c)'

\* C25: every step of getBalance, getTransferHistory and login, ending well or
\* with an error, leaves the Account and Transfer rows as they are, committed or
\* in an open transaction; the committed rows change only when a transfer's
\* transaction commits.
C25_ReadsWriteNothing ==
    [][/\ ReadStep => UNCHANGED <<accounts, transfers, txOwner, txAccounts, txTransfers>>
       /\ (accounts' # accounts \/ transfers' # transfers) => CommitStep]_vars

\* A login has succeeded beside a ledger that holds committed transfers and an
\* open transaction.
C25_Witness ==
    \E l \in Readers :
        /\ logins[l].pc = "done"
        /\ logins[l].result = Ok
        /\ logins[l].returned[1].employee.username = "employee1"
        /\ transfers # <<>>
        /\ txOwner # 0
        /\ txAccounts # accounts
\* ------------------------------------------------------------------ C26
CoreNotFound == NotFoundErrors \cup {ErrCustomer, ErrAccount}
CoreInvalidArgument == InvalidArgumentErrors \cup {ErrDeposit}

\* The result of the core call a request waits for.
CoreResult(q) ==
    IF requests[q].route = PostTransfers THEN calls[q].result
    ELSE IF requests[q].route = PostAccounts THEN creates[q].result
    ELSE IF requests[q].route = GetAccount THEN balances[q].result
    ELSE reads[q].result

\* A step in which a request that called the core is answered.
AnswersCore(q) ==
    requests[q].pc = "core" /\ requests'[q].pc = "responded"

\* C26: the answer to a request whose core call failed with a not-found error
\* has status 404, with an invalid-argument error status 400, both with the body
\* {errorMessage: the error's message}; a successful createAccount or transfer
\* is answered 201 and a successful read 200.
C26_StatusMapping ==
    [][\A q \in Clients :
         AnswersCore(q) =>
             /\ CoreResult(q) \in CoreNotFound =>
                    /\ requests'[q].status = 404
                    /\ requests'[q].body = ErrorMessageBody(CoreResult(q))
             /\ CoreResult(q) \in CoreInvalidArgument =>
                    /\ requests'[q].status = 400
                    /\ requests'[q].body = ErrorMessageBody(CoreResult(q))
             /\ CoreResult(q) = Ok =>
                    requests'[q].status =
                        IF requests[q].route \in {PostTransfers, PostAccounts}
                        THEN 201 ELSE 200]_vars

\* A createAccount request for a customer that does not exist was answered 404
\* with the core's message.
C26_Witness ==
    \E q \in Clients :
        /\ requests[q].pc = "responded"
        /\ requests[q].route = PostAccounts
        /\ requests[q].args.customerId = NumCustomers + 1
        /\ requests[q].status = 404
        /\ requests[q].body = ErrorMessageBody(ErrCustomer)
        /\ Len(accounts) = 1
\* ------------------------------------------------------------------ C27
\* The request the client sends in this step carries no valid token.
ReceivedUnauthenticated(q) ==
    /\ requests[q].pc \in {"idle", "responded"}
    /\ requests'[q] # requests[q]
    /\ ~(requests'[q].authorization.scheme = "Bearer"
         /\ requests'[q].authorization.token = JwtSign(Employees[1]))

\* A core operation is called in this step.
CoreInvoked ==
    \/ \E c \in Calls : calls[c].pc = "idle" /\ calls'[c].pc # "idle"
    \/ \E k \in Creators : creates[k].pc = "idle" /\ creates'[k].pc # "idle"
    \/ \E g \in Readers : balances[g].pc = "idle" /\ balances'[g].pc # "idle"
    \/ \E r \in Readers : reads[r].pc = "idle" /\ reads'[r].pc # "idle"

\* C27: a request without a valid token is answered 401 in the step that
\* receives it, with no core call and no change of the ledger; and the core is
\* only ever called for a request that carries a valid token.
C27_UnauthenticatedStopped ==
    [][/\ \A q \in Clients :
             ReceivedUnauthenticated(q) =>
                 /\ requests'[q].pc = "responded"
                 /\ requests'[q].status = 401
                 /\ UNCHANGED <<accounts, transfers, txOwner, txAccounts, txTransfers,
                                calls, creates, balances, reads>>
       /\ CoreInvoked =>
             \E q \in Clients :
                 /\ requests[q].pc = "core"
                 /\ requests[q].authorization.scheme = "Bearer"
                 /\ requests[q].authorization.token = JwtSign(Employees[1])]_vars

\* A transfer request that the core would have carried out was answered 401
\* because its token's signature does not verify.
C27_Witness ==
    \E q \in Clients :
        /\ requests[q].pc = "responded"
        /\ requests[q].status = 401
        /\ requests[q].route = PostTransfers
        /\ requests[q].authorization.scheme = "Bearer"
        /\ requests[q].args.fromAccountId = 1
        /\ requests[q].args.toAccountId = 2
        /\ requests[q].args.amount = 1
        /\ Len(accounts) = 2
        /\ transfers = <<>>
\* ------------------------------------------------------------------ C28
\* Two calls under way whose pairs are four distinct accounts.
DisjointPairs(c, d) ==
    /\ c # d
    /\ calls[c].pc # "idle"
    /\ calls[d].pc # "idle"
    /\ Cardinality({calls[c].from, calls[c].to, calls[d].from, calls[d].to}) = 4

\* C28: of two concurrent calls on disjoint pairs, each ends with the outcome
\* it has when run alone and changes the tables as it does when run alone; in
\* particular a call does not end with the store's error while it waits for
\* the other call's transaction.  (A store failure that strikes a call that is
\* not waiting for the other is no interference and is left aside.)
C28_DisjointPairsIndependent ==
    [][\A c, d \in Calls :
         (/\ DisjointPairs(c, d)
          /\ Finishes(c)
          /\ (calls'[c].result = ErrStore => InConflict(c)))
         => /\ calls'[c].result =
                   AloneResult(variant, accounts, calls[c].from, calls[c].to,
                               calls[c].amount)
            /\ accounts' = AloneAccounts(variant, accounts, calls[c].from, calls[c].to,
                                         calls[c].amount)
            /\ transfers' = AloneTransfers(variant, accounts, transfers, calls[c].from,
                                           calls[c].to, calls[c].amount, now)]_vars

\* ------------------------------------------------------------------ C29
\* The calls, their outcomes and the tables after the calls have run one after
\* another in the given order from the opened accounts.
RECURSIVE Serial(_, _, _)
Serial(order, table, rows) ==
    IF order = <<>>
    THEN [results |-> [c \in {} |-> Ok], accounts |-> table, transfers |-> rows]
    ELSE LET c == Head(order)
             rest == Serial(Tail(order),
                            AloneAccounts(variant, table, calls[c].from, calls[c].to,
                                          calls[c].amount),
                            AloneTransfers(variant, table, rows, calls[c].from,
                                           calls[c].to, calls[c].amount, now))
         IN  [rest EXCEPT !.results =
                  [d \in DOMAIN rest.results \cup {c} |->
                      IF d = c
                      THEN AloneResult(variant, table, calls[c].from, calls[c].to,
                                       calls[c].amount)
                      ELSE rest.results[d]]]

\* The orders in which the calls can run one after another.
Orders ==
    {order \in [1..NCalls -> Calls] : \A c \in Calls : \E i \in 1..NCalls : order[i] = c}

\* All calls have ended and none with the store's error.
AllEnded ==
    \A c \in Calls : Done(c) /\ calls[c].result # ErrStore

\* C29: when concurrent calls have all ended, their outcomes, the balances and
\* the Transfer rows are those of running the same calls one after another in
\* some order.
C29_Serializable ==
    AllEnded =>
        \E order \in Orders :
            LET serial == Serial(order, OpenedAccounts(PairAccounts), <<>>)
            IN  /\ \A c \in Calls : calls[c].result = serial.results[c]
                /\ accounts = serial.accounts
                /\ transfers = serial.transfers
Succeeds(c) ==
    Finishes(c) /\ calls'[c].result = Ok

\* C31: the step in which accountTransfer(from, to, amount) succeeds leaves the
\* balance of every account but from and to as it was, leaves the id, the
\* customerId and the opening deposit of every account as they were, keeps
\* every existing Transfer row and adds exactly one; and no step of any
\* operation removes an account.
C31_TransferFrame ==
    [][/\ \A c \in Calls :
             Succeeds(c) =>
                 /\ Len(accounts') = Len(accounts)
                 /\ \A i \in AccountIds :
                        /\ accounts'[i].id = accounts[i].id
                        /\ accounts'[i].customerId = accounts[i].customerId
                        /\ accounts'[i].deposit = accounts[i].deposit
                        /\ i \notin {calls[c].from, calls[c].to} =>
                               accounts'[i].balance = accounts[i].balance
                 /\ Len(transfers') = Len(transfers) + 1
                 /\ SubSeq(transfers', 1, Len(transfers)) = transfers
       /\ Len(accounts') >= Len(accounts)
       /\ \A i \in AccountIds : accounts'[i].id = accounts[i].id]_vars

\* A transfer from account 2 to account 1 has succeeded: account 1 holds
\* more than its deposit, and account 3, of the same customer as account 1,
\* holds its deposit still.
C31_Witness ==
    /\ \E c \in Calls : Succeeded(c) /\ calls[c].from = 2 /\ calls[c].to = 1
    /\ Len(transfers) = 1
    /\ accounts[3].customerId = accounts[1].customerId
    /\ accounts[1].balance = accounts[1].deposit + transfers[1].amount
    /\ accounts[3].balance = accounts[3].deposit
\* ------------------------------------------------------------------ C32
\* C32: in every history returned, of two rows with the same timestamp the one
\* with the greater id (the one committed later) comes first.
C32_TiesByIdDescending ==
    \A r \in Readers :
        (reads[r].pc = "done" /\ reads[r].result = Ok) =>
            \A i, j \in 1..Len(reads[r].history) :
                (i < j /\ reads[r].history[i].timestamp = reads[r].history[j].timestamp)
                    => reads[r].history[i].id > reads[r].history[j].id
\* ------------------------------------------------------------------ C33
\* Every Account row names an existing Customer and every Transfer row names
\* existing Accounts, in the committed tables and in an open transaction.
References(accountTable, transferTable) ==
    /\ \A i \in 1..Len(accountTable) : accountTable[i].customerId \in CustomerIds
    /\ \A i \in 1..Len(transferTable) :
           /\ FindUnique(accountTable, transferTable[i].fromAccountId) # <<>>
           /\ FindUnique(accountTable, transferTable[i].toAccountId) # <<>>

ReferentialIntegrity ==
    /\ References(accounts, transfers)
    /\ txOwner # 0 => References(txAccounts, txTransfers)

\* C33: referential integrity holds in every state, and no step removes an
\* Account row (the Customer rows are never written).
C33_ReferentialIntegrity ==
    /\ ReferentialIntegrity
    /\ [][/\ ReferentialIntegrity'
          /\ \A i \in AccountIds : FindUnique(accounts', i) = <<[accounts[i] EXCEPT
                                        !.balance = accounts'[i].balance]>>]_vars

\* Two accounts of a seeded customer are open and a committed Transfer row
\* names them, after a transfer to an account that does not exist was refused.
C33_Witness ==
    /\ Len(accounts) = 2
    /\ Len(transfers) = 1
    /\ transfers[1].fromAccountId = 1
    /\ transfers[1].toAccountId = 2
    /\ \E c \in Calls : Done(c) /\ calls[c].result = ErrDest
\* ------------------------------------------------------------------ C34
\* An answered create-account request of an authenticated client that names
\* a customer that does not exist and a deposit that is zero or negative.
NoCustomerNoDeposit(q) ==
    /\ requests[q].pc = "responded"
    /\ requests[q].route = PostAccounts
    /\ requests[q].authorization.scheme = "Bearer"
    /\ requests[q].authorization.token = JwtSign(Employees[1])
    /\ requests[q].args.customerId # Undefined
    /\ requests[q].args.customerId \notin CustomerIds
    /\ requests[q].args.initialDeposit \in (-1)..0

\* C34: createAccount for a customer that does not exist with a deposit that
\* is zero or negative fails with "Customer not found", answered 404, and not
\* with an invalid-argument error.
C34_CustomerBeforeDeposit ==
    \A q \in Clients :
        NoCustomerNoDeposit(q) =>
            /\ requests[q].status = 404
            /\ requests[q].body = ErrorMessageBody(ErrCustomer)
\* ------------------------------------------------------------------ C35
\* The client sends, with a valid token, a request to a POST route whose body
\* lacks one of the route's fields.
ReceivedIncomplete(q) ==
    /\ requests[q].pc \in {"idle", "responded"}
    /\ requests'[q] # requests[q]
    /\ requests'[q].authorization.scheme = "Bearer"
    /\ requests'[q].authorization.token = JwtSign(Employees[1])
    /\ \/ /\ requests'[q].route = PostTransfers
          /\ Undefined \in {requests'[q].args.fromAccountId, requests'[q].args.toAccountId,
                            requests'[q].args.amount}
       \/ /\ requests'[q].route = PostAccounts
          /\ Undefined \in {requests'[q].args.customerId, requests'[q].args.initialDeposit}

\* C35: a transfer or create-account request whose body lacks a field is
\* answered 400 with the route's message about required fields, in the step
\* that receives it: the core is not called and nothing else changes.
C35_MissingFields ==
    [][\A q \in Clients :
         ReceivedIncomplete(q) =>
             /\ requests'[q].pc = "responded"
             /\ requests'[q].status = 400
             /\ requests'[q].body =
                    ErrorMessageBody(IF requests'[q].route = PostTransfers
                                     THEN ErrTransferFields ELSE ErrAccountFields)
             /\ UNCHANGED <<accounts, transfers, txOwner, txAccounts, txTransfers,
                            calls, creates, balances, reads, logins, now>>]_vars

\* A transfer request that lacks only toAccountId was answered 400 with the
\* message, at a ledger on which a transfer from account 1 can succeed.
C35_Witness ==
    \E q \in Clients :
        /\ requests[q].pc = "responded"
        /\ requests[q].route = PostTransfers
        /\ requests[q].args.fromAccountId = 1
        /\ requests[q].args.toAccountId = Undefined
        /\ requests[q].args.amount = 1
        /\ requests[q].status = 400
        /\ requests[q].body = ErrorMessageBody(ErrTransferFields)
        /\ Len(accounts) = 2
\* ------------------------------------------------------------------ C36
\* The credentials the seed provisions.
SeededCredentials(username, password) ==
    username \in {"employee1", "manager1"} /\ password = "password123"

\* C36: a login that has ended has succeeded exactly when the username exists
\* and the password is the employee's; then it returns a token and an employee
\* object of exactly employeeId, username and role, the password in neither;
\* otherwise it fails with "Invalid credentials", answered 401, whether the
\* username is unknown or the password wrong.
C36_Login ==
    \A l \in Readers :
        logins[l].pc = "done" =>
            IF SeededCredentials(logins[l].username, logins[l].password)
            THEN /\ logins[l].result = Ok
                 /\ LoginStatus(logins[l].result) = 200
                 /\ DOMAIN logins[l].returned[1] = {"token", "employee"}
                 /\ DOMAIN logins[l].returned[1].employee = {"employeeId", "username", "role"}
                 /\ logins[l].returned[1].employee.username = logins[l].username
                 /\ "password" \notin DOMAIN logins[l].returned[1].token
            ELSE /\ logins[l].result = ErrCredentials
                 /\ LoginStatus(logins[l].result) = 401
                 /\ logins[l].returned = <<>>

\* A login with a known username and a wrong password has failed.
C36_Witness ==
    \E l \in Readers :
        /\ logins[l].pc = "done"
        /\ logins[l].username = "employee1"
        /\ logins[l].password = "letmein"
        /\ logins[l].result = ErrCredentials
\* ------------------------------------------------------------------ C37
\* Exactly one Customer per seeded name and one Employee per seeded username,
\* and no other row.
SeededOnce ==
    /\ Len(customers) = NumCustomers
    /\ \A i \in 1..NumCustomers :
           Cardinality({j \in 1..Len(customers) : customers[j].name = CustomerNames[i]}) = 1
    /\ Len(employees) = Len(Employees)
    /\ \A i \in 1..Len(Employees) :
           Cardinality({j \in 1..Len(employees) :
                           employees[j].username = Employees[i].username}) = 1

\* C37: every run of the seed, the first and every later one, ends without
\* failure and leaves exactly one Customer per seeded name and exactly one
\* Employee per seeded username.
C37_SeedIdempotent ==
    seeds.pc \in {"done", "failed"} => (seeds.result = Ok /\ SeededOnce)

\* C38: the lifetime of the token login issues is the value of JWT_EXPIRE_IN
\* in the environment, and validateEnvVars makes that value 24h when the
\* variable is unset.
C38_TokenLifetime ==
    [][/\ (process.pc = "starting" /\ process'.pc = "running")
            => process'.env.JWT_EXPIRE_IN =
                  IF process.env.JWT_EXPIRE_IN = "" THEN "24h"
                  ELSE process.env.JWT_EXPIRE_IN
       /\ \A l \in Readers :
            (logins[l].pc = "compare" /\ logins'[l].result = Ok)
                => logins'[l].returned[1].token.expiresIn = process.env.JWT_EXPIRE_IN
      ]_vars

====
